---- MODULE Spec2Model ----
(***************************************************************************)
(* Shard synchronization on a follower: SynchronizeShard::first,           *)
(* catchupWithReadLock, catchupWithExclusiveLock and setState of           *)
(* arangod/Cluster/SynchronizeShard.cpp, as a state machine of one attempt *)
(* for one (database, shard).  Every call to the leader, to a syncer or to *)
(* the local collection is one action; what the callee answers is drawn    *)
(* from a small set.  The attempt for a second shard of the same server is *)
(* kept as its result and its terminal transition only.  Three units that  *)
(* share no state with the attempt have their own variables and their own  *)
(* specifications: the cancellation callback of replicationSynchronize,    *)
(* the cache tasks of Cache/ManagerTasks.cpp and the master context of     *)
(* Pregel/Algos/SCC/SCC.cpp.                                               *)
(***************************************************************************)
EXTENDS Integers, Sequences, FiniteSets, TLC

\* ---------------------------------------------------------------- bounds
MaxFailures == 4     \* largest FailureState an attempt starts with
MaxTick == 2         \* WAL ticks are 0..MaxTick
MaxTerm == 1         \* following term ids the leader hands out are 0..MaxTerm
MaxLockId == 2       \* lock ids the leader hands out are 1..MaxLockId
MaxCount == 2        \* document counts are 0..MaxCount
MaxVersionPolls == 1 \* polls of the agency version that fit in the 600 s budget
MaxBackoffFailures == 17 \* largest FailureState the backoff is computed for
MaxPlanLen == 3      \* longest planned server list the callback is given
MaxRepeatedCalls == 1 \* calls of setState after the terminal transition
MaxTasks == 2        \* cache tasks that are dispatched
MaxSuperstep == 16   \* global supersteps of a Pregel run
MaxVertices == 2     \* vertices that report to the aggregators

\* ------------------------------------------------------ program constants
delayThreshold == 4      \* failures in a row from which first() sleeps
sleepPerRound == 5       \* 0.5 s, in tenths of a second
sleepCap == 150          \* 15.0 s, in tenths of a second
sleepBase == 20          \* 2.0 s, in tenths of a second
maxTries == 18           \* iterations of the soft-lock loop
requeueThreshold == 10000 \* count difference above which the job is requeued
pollSleep == 2           \* 0.2 s between two polls of the readiness loop
\* enum SCCPhase
TRANSPOSE == 0
TRIMMING == 1
FORWARD_TRAVERSAL == 2
BACKWARD_TRAVERSAL_START == 3
BACKWARD_TRAVERSAL_REST == 4

\* Servers named in Plan and Current.
Leader == "L"
Ourselves == "F"
Other == "X"

\* Error codes (TRI_ERROR_...).
NO_ERROR == "NO_ERROR"
SHUTTING_DOWN == "SHUTTING_DOWN"
FAILED_ERR == "FAILED"
INTERNAL == "INTERNAL"
DATA_SOURCE_NOT_FOUND == "ARANGO_DATA_SOURCE_NOT_FOUND"
DATABASE_NOT_FOUND == "ARANGO_DATABASE_NOT_FOUND"
ACTION_UNFINISHED == "ACTION_UNFINISHED"
ATTEMPT_TIMEOUT == "REPLICATION_SHARD_SYNC_ATTEMPT_TIMEOUT_EXCEEDED"
WRONG_CHECKSUM == "REPLICATION_WRONG_CHECKSUM"
CONNECTION_LOST == "CLUSTER_CONNECTION_LOST"
BACKEND_UNAVAILABLE == "CLUSTER_BACKEND_UNAVAILABLE"

\* What a request to the leader can fail with (network::Response::combinedResult).
RpcErrors == {CONNECTION_LOST, BACKEND_UNAVAILABLE}
\* What a local collection operation or a syncer can fail with.
LocalErrors == {INTERNAL, DATA_SOURCE_NOT_FOUND}

Ticks == 0..MaxTick
Counts == 0..MaxCount
\* Counts at the start of an attempt: small ones and the two around the
\* requeue threshold.
StartCounts == Counts \cup {requeueThreshold, requeueThreshold + 1}
LockIds == 1..MaxLockId

\* An optional numeric field of a response body.
Absent == [has |-> FALSE, val |-> 0]
Field(v) == [has |-> TRUE, val |-> v]
TermFields == {Absent} \cup {Field(v) : v \in 0..MaxTerm}
TickFields == {Absent} \cup {Field(v) : v \in Ticks}

VARIABLES
  \* the job's description and the server's configuration
  forcedResync, syncByRevision, priority, attemptTimeout,
  \* MaintenanceFeature, process-wide, for this (database, shard)
  replErrors, timedOutAttempts, shardLocked, shardVersion,
  \* ActionBase::requeueMe: the flag and the priority asked for
  requeued, requeuePriority,
  \* environment
  stopping, deadlinePassed,
  \* the action object and the locals of first() that live across calls
  pc, state, result, endTimeSet, sleepTime,
  followingTermId, tailingUpperBoundTick, theLeader, syncerLeaderId,
  lastLogTick, tickReached, didTimeout, tries, lockJobId, readLockGuard,
  docCountAtEnd, versionPolls,
  \* history of the attempt
  hist,
  \* the attempt for another shard of the same server: how far it is, its
  \* result, and that shard's entries in MaintenanceFeature
  peer,
  \* one evaluation of the cancellation callback of replicationSynchronize
  probe,
  \* the cache tasks of Cache/ManagerTasks.cpp and the manager's counter
  tasks,
  \* the master context and the aggregators of Pregel/Algos/SCC/SCC.cpp
  scc

jobVars == <<forcedResync, syncByRevision, priority, attemptTimeout>>
featureVars == <<replErrors, timedOutAttempts, shardLocked, shardVersion>>
requeueVars == <<requeued, requeuePriority>>
envVars == <<stopping, deadlinePassed>>
termVars == <<followingTermId, tailingUpperBoundTick, theLeader, syncerLeaderId>>
loopVars == <<lastLogTick, tickReached, didTimeout, tries>>
lockVars == <<lockJobId, readLockGuard, docCountAtEnd>>
peerVars == <<peer>>
unitVars == <<probe, tasks, scc>>

vars == <<jobVars, featureVars, requeueVars, envVars, pc, state, result,
          endTimeSet, sleepTime, termVars, loopVars, lockVars, versionPolls,
          hist, peerVars, unitVars>>

\* ------------------------------------------------------------- history
(* hist records what the attempt has done so far:                          *)
(*   slept       tenths of a second slept in the backoff                    *)
(*   nap         tenths of a second the most recent round of the backoff    *)
(*               or of the readiness loop slept                             *)
(*   started     the steps that have been started                           *)
(*   succeeded   the steps that returned success                            *)
(*   last        the step started most recently                             *)
(*   lastOk      whether that step has returned success                     *)
(*   hardTerm    the followingTermId field of the hard lock's response      *)
(*   hardUpper   the lastLogTick field of the hard lock's response          *)
(*   finalRes    what finalize returned                                     *)
(*   acquire     mode, outcome and lock id of the most recent acquire call  *)
(*   cancels     cancel calls issued for the lock of that acquire call      *)
(*   cancelRight whether every cancel call carried the id of that lock      *)
(*   cancelOk    whether the most recent cancel call returned success       *)
(*   addReq      the add-follower request, once sent                        *)
(*   addRes      what add-follower returned                                 *)
(*   cause       why the attempt was aborted, when a deadline or the plan   *)
(*               made a syncer give up                                      *)
(*   recountRes  what the recount request to the leader returned            *)
(*   recount     <<count read, count after the forced recount>> of the      *)
(*               reconciliation, until the two have been compared           *)
(*   before      FailureState at the start of the attempt                   *)
(*   poll        what the most recent poll of the readiness loop read       *)
(*   softFields  whether a soft lock's response of the running loop carried *)
(*               a following term id and a lastLogTick other than 0         *)
(*   again       calls of setState made after the terminal transition, with *)
(*               the state the job is in                                    *)
(*   counts      <<count here, count on the leader>> as first() compared    *)
(*               them, until the next step starts                           *)
NoReq == [sent |-> FALSE, hasLockId |-> FALSE, readLockId |-> 0, checksum |-> 0]
NoAcquire == [mode |-> "none", outcome |-> "none", id |-> 0]
NoPoll == [resOk |-> FALSE, planned |-> <<>>, ciFound |-> FALSE,
           current |-> <<>>, polled |-> FALSE]

InitHist(n) ==
  [slept |-> 0, nap |-> 0, started |-> {}, succeeded |-> {}, last |-> "none",
   lastOk |-> TRUE, hardTerm |-> Absent, hardUpper |-> Absent,
   finalRes |-> "none",
   acquire |-> NoAcquire, cancels |-> 0, cancelRight |-> TRUE, cancelOk |-> TRUE,
   addReq |-> NoReq, addRes |-> "none", cause |-> "none",
   recountRes |-> "none", recount |-> <<>>, before |-> n, counts |-> <<>>,
   poll |-> NoPoll, softFields |-> FALSE, again |-> 0]

Start(h, step) ==
  [h EXCEPT !.started = @ \cup {step}, !.last = step, !.lastOk = FALSE,
            !.counts = <<>>]
Succeed(h, step) ==
  [h EXCEPT !.succeeded = @ \cup {step}, !.lastOk = TRUE]

\* ---------------------------------------------------------------- Init
\* The job descriptions an attempt is started with: <<forced resync, sync by
\* revision, priority, configured attempt timeout>>; the usual one and those
\* that differ from it in one field.
Descriptions ==
  {<<FALSE, TRUE, "normal", 1>>, <<TRUE, TRUE, "normal", 1>>,
   <<FALSE, FALSE, "normal", 1>>, <<FALSE, TRUE, "slow", 1>>,
   <<FALSE, TRUE, "normal", 0>>}

\* The FailureState an attempt is started with: none, or enough to be delayed.
InitialFailures == {0, MaxFailures}

\* The two shards: the one of the attempt and the one of the other attempt.
OwnShard == "s1"
PeerShard == "s2"

\* The other attempt after its constructor: running, its shard locked.
PeerStart ==
  [pc |-> "running", result |-> NO_ERROR, replErrors |-> 0,
   shardLocked |-> TRUE, shardVersion |-> 0]

\* The state after the constructor (SynchronizeShard.cpp:124-160) for a valid
\* description: the shard is locked for this job and the action is executing.
AfterConstructor(d, n) ==
  /\ forcedResync = d[1]
  /\ syncByRevision = d[2]
  /\ priority = d[3]
  /\ attemptTimeout = d[4]
  /\ replErrors = n
  /\ timedOutAttempts = 0
  /\ shardLocked = TRUE
  /\ shardVersion = 0
  /\ requeued = FALSE
  /\ requeuePriority = "none"
  /\ stopping = FALSE
  /\ deadlinePassed = FALSE
  /\ pc = "start"
  /\ state = "EXECUTING"
  /\ result = NO_ERROR
  /\ endTimeSet = FALSE
  /\ sleepTime = 0
  /\ followingTermId = 0
  /\ tailingUpperBoundTick = 0
  /\ theLeader = <<>>
  /\ syncerLeaderId = <<>>
  /\ lastLogTick = 0
  /\ tickReached = 0
  /\ didTimeout = FALSE
  /\ tries = 0
  /\ lockJobId = 0
  /\ readLockGuard = "none"
  /\ docCountAtEnd = 0
  /\ versionPolls = 0
  /\ hist = InitHist(n)
  /\ peer = PeerStart

\* ------------------------------------------- other units of the server
\* An entry of the planned server list as velocypack shows it: a string with
\* its text, or a value of another type.
Str(text) == [isString |-> TRUE, text |-> text]
NotAString == [isString |-> FALSE, text |-> ""]
PlanEntries == {Str(Leader), Str(Ourselves), Str(Other), NotAString}

SeqsUpTo(S, n) == UNION {[1..k -> S] : k \in 0..n}

\* What agencyCache.get finds at Plan/Collections/<db>/<planId>/shards/<shard>
\* (lines 628-633): nothing, a value that is not an array, or an array.
NoPlan == [kind |-> "none", items |-> <<>>]
PlanObject == [kind |-> "object", items |-> <<>>]
PlanArray(items) == [kind |-> "array", items |-> items]
PlanValues ==
  {NoPlan, PlanObject} \cup {PlanArray(q) : q \in SeqsUpTo(PlanEntries, MaxPlanLen)}

\* No evaluation of the callback is looked at.
NoProbe ==
  [hasDeadline |-> FALSE, passed |-> FALSE, plan |-> NoPlan, answer |-> "unused"]

\* ------------------------------------------------------ the cache tasks
\* Cache/ManagerTasks.cpp.  A task is a FreeMemoryTask ("free") or a
\* MigrateTask ("migrate"):
\*   pc         "new", "prepared" (dispatch has called prepareTask), "posted"
\*              (the lambda that calls run is queued), "over"
\*   prepares   calls of Manager::prepareTask made for it
\*   unprepares calls of Manager::unprepareTask made for it
\*   post       what Manager::post did: "none", "posted", "rejected", "throws"
\*   returned   how dispatch ended: "none", "true", "false", "throws"
\*   run        how run ended: "none", "completed", "threw"
\*   effect     what run did to the cache besides
TaskKinds == {"free", "migrate"}
NewTask(kind) ==
  [kind |-> kind, pc |-> "new", prepares |-> 0, unprepares |-> 0,
   post |-> "none", returned |-> "none", run |-> "none", effect |-> "none"]

\* No cache task exists; outstanding is the manager's count of prepared tasks.
NoTasks == [outstanding |-> 0, t |-> <<>>]

\* Manager::post: the lambda is queued and post returns true, or it is not
\* queued and post returns false or throws.
PostOutcomes == {"posted", "rejected", "throws"}

\* dispatch, lines 41-49 and 93-101: what it returns or that it throws.
DispatchReturn(post) ==
  CASE post = "posted" -> "true"
    [] post = "rejected" -> "false"
    [] OTHER -> "throws"

\* Mutant: dispatch leaves the count to run in every case.
UnpreparesInDispatch_Never(post) == 0

\* dispatch, lines 44 and 47: unprepareTask when the task was not posted.
UnpreparesInDispatch(post) == IF post = "posted" THEN 0 ELSE 1

\* What run can meet: the cache's operation returns true or false, or an
\* exception is thrown in the try block.
RunOutcomes == {"ranTrue", "ranFalse", "throws"}

\* Mutant: run does not count down when it caught an exception.
UnpreparesInRun_NotOnThrow(outcome) == IF outcome = "throws" THEN 0 ELSE 1

\* run, lines 72 and 75, 122 and 125: unprepareTask at the end of the try
\* block or in the handler, once.
UnpreparesInRun(outcome) == 1

\* run, lines 56-70 and 109-120: FreeMemoryTask gives back the memory when
\* freeMemory ran, MigrateTask reclaims the table when migrate did not run.
RunEffect(kind, outcome) ==
  CASE kind = "free" /\ outcome = "ranTrue" -> "limitsAdjusted"
    [] kind = "migrate" /\ outcome = "ranFalse" -> "tableReclaimed"
    [] OTHER -> "none"

TaskFrame ==
  UNCHANGED <<jobVars, featureVars, requeueVars, envVars, pc, state, result,
              endTimeSet, sleepTime, termVars, loopVars, lockVars,
              versionPolls, hist, peerVars, probe, scc>>

\* dispatch, lines 39 and 91: prepareTask.
DispatchPrepare ==
  /\ \E i \in DOMAIN tasks.t :
       /\ tasks.t[i].pc = "new"
       /\ tasks' = [tasks EXCEPT !.outstanding = @ + 1,
                                 !.t[i].pc = "prepared",
                                 !.t[i].prepares = @ + 1]
  /\ TaskFrame

\* dispatch, lines 40-49 and 92-101: post, and what follows it.
DispatchPost ==
  /\ \E i \in DOMAIN tasks.t, post \in PostOutcomes :
       /\ tasks.t[i].pc = "prepared"
       /\ tasks' = [tasks EXCEPT
                      !.outstanding = @ - UnpreparesInDispatch(post),
                      !.t[i].pc = IF post = "posted" THEN "posted" ELSE "over",
                      !.t[i].post = post,
                      !.t[i].unprepares = @ + UnpreparesInDispatch(post),
                      !.t[i].returned = DispatchReturn(post)]
  /\ TaskFrame

\* run, lines 52-78 and 104-128, called by the queued lambda.
TaskRun ==
  /\ \E i \in DOMAIN tasks.t, outcome \in RunOutcomes :
       /\ tasks.t[i].pc = "posted"
       /\ tasks' = [tasks EXCEPT
                      !.outstanding = @ - UnpreparesInRun(outcome),
                      !.t[i].pc = "over",
                      !.t[i].unprepares = @ + UnpreparesInRun(outcome),
                      !.t[i].run = IF outcome = "throws" THEN "threw"
                                   ELSE "completed",
                      !.t[i].effect = RunEffect(tasks.t[i].kind, outcome)]
  /\ TaskFrame

\* --------------------------------------------- the SCC master context
\* Pregel/Algos/SCC/SCC.cpp and Pregel/Aggregator.h.
\*   stage      "none"; "pre": the conductor is about to call
\*              preGlobalSuperstep; "compute": the workers run the superstep
\*   gss        the global superstep
\*   phase      the aggregator kPhase
\*   max        the aggregator kFoundNewMax
\*   converged  the aggregator kConverged

\* OverwriteAggregator::aggregate, BoolOrAggregator::aggregate.
Overwrite(value, other) == other
BoolOr(value, other) == value \/ other

\* NumberAggregator::reset, BoolOrAggregator::reset.
ResetNumber(permanent, value, neutral) == IF permanent THEN value ELSE neutral
ResetBoolOr(permanent, value) == IF permanent THEN value ELSE FALSE

\* SCC::aggregator, lines 245-254: kPhase is permanent and starts as
\* TRANSPOSE, kFoundNewMax and kConverged are not permanent.
PhasePermanent == TRUE
FlagsPermanent == FALSE
Aggregators ==
  [phase |-> TRANSPOSE, max |-> FALSE, converged |-> FALSE]

\* No Pregel run is under way.
NoRun ==
  [stage |-> "none", gss |-> 0, phase |-> TRANSPOSE, max |-> FALSE,
   converged |-> FALSE]

\* Mutant: the forward traversal is left when a new maximum was found.
PhaseAfter_LeavesOnNewMax(gss, phase, newMaxFound, converged) ==
  IF gss = 0 THEN Overwrite(phase, TRANSPOSE)
  ELSE CASE phase = TRANSPOSE -> Overwrite(phase, TRIMMING)
         [] phase = TRIMMING -> Overwrite(phase, FORWARD_TRAVERSAL)
         [] phase = FORWARD_TRAVERSAL ->
              IF newMaxFound THEN Overwrite(phase, BACKWARD_TRAVERSAL_START)
              ELSE phase
         [] phase = BACKWARD_TRAVERSAL_START ->
              Overwrite(phase, BACKWARD_TRAVERSAL_REST)
         [] phase = BACKWARD_TRAVERSAL_REST ->
              IF ~converged THEN Overwrite(phase, TRANSPOSE) ELSE phase
         [] OTHER -> phase

\* SCCMasterContext::preGlobalSuperstep, lines 196-238: kPhase after it.
PhaseAfter(gss, phase, newMaxFound, converged) ==
  IF gss = 0 THEN Overwrite(phase, TRANSPOSE)
  ELSE CASE phase = TRANSPOSE -> Overwrite(phase, TRIMMING)
         [] phase = TRIMMING -> Overwrite(phase, FORWARD_TRAVERSAL)
         [] phase = FORWARD_TRAVERSAL ->
              IF ~newMaxFound THEN Overwrite(phase, BACKWARD_TRAVERSAL_START)
              ELSE phase
         [] phase = BACKWARD_TRAVERSAL_START ->
              Overwrite(phase, BACKWARD_TRAVERSAL_REST)
         [] phase = BACKWARD_TRAVERSAL_REST ->
              IF ~converged THEN Overwrite(phase, TRANSPOSE) ELSE phase
         [] OTHER -> phase

\* What the vertices aggregate into a flag in one superstep, one after the
\* other, from the value the reset left.
RECURSIVE Reported(_, _, _)
Reported(value, reports, n) ==
  IF n = 0 THEN value
  ELSE BoolOr(Reported(value, reports, n - 1), reports[n])

SccFrame ==
  UNCHANGED <<jobVars, featureVars, requeueVars, envVars, pc, state, result,
              endTimeSet, sleepTime, termVars, loopVars, lockVars,
              versionPolls, hist, peerVars, probe, tasks>>

\* The conductor calls preGlobalSuperstep before the superstep gss.
PreGlobalSuperstep ==
  /\ scc.stage = "pre"
  /\ scc' = [scc EXCEPT
               !.stage = "compute",
               !.phase = PhaseAfter(scc.gss, scc.phase, scc.max, scc.converged)]
  /\ SccFrame

\* One global superstep: the aggregators are reset, every vertex runs
\* SCCComputation::compute (lines 59-149), which reports a new maximum in
\* FORWARD_TRAVERSAL only (line 113) and convergence in
\* BACKWARD_TRAVERSAL_REST only (line 141).
GlobalSuperstep ==
  /\ scc.stage = "compute"
  /\ scc.gss < MaxSuperstep
  /\ \E reports \in [1..MaxVertices -> BOOLEAN] :
       LET max0 == ResetBoolOr(FlagsPermanent, scc.max)
           conv0 == ResetBoolOr(FlagsPermanent, scc.converged)
       IN scc' = [scc EXCEPT
                    !.stage = "pre",
                    !.gss = @ + 1,
                    !.phase = ResetNumber(PhasePermanent, @, TRANSPOSE),
                    !.max = IF scc.phase = FORWARD_TRAVERSAL
                              THEN Reported(max0, reports, MaxVertices)
                              ELSE max0,
                    !.converged = IF scc.phase = BACKWARD_TRAVERSAL_REST
                                    THEN Reported(conv0, reports, MaxVertices)
                                    ELSE conv0]
  /\ SccFrame


\* Nothing but the attempts goes on: no callback is looked at, no cache task
\* is dispatched, no Pregel run is under way.
UnitsIdle ==
  /\ probe = NoProbe
  /\ tasks = NoTasks
  /\ scc = NoRun

Init ==
  /\ \E d \in Descriptions, n \in InitialFailures : AfterConstructor(d, n)
  /\ UnitsIdle

\* first() returns false with the given result code (result(code); return false).
Return(code) ==
  /\ result' = code
  /\ pc' = "returned"

\* ----------------------------------------------------------- environment
\* The server begins to shut down (ApplicationServer::isStopping becomes true).
Shutdown ==
  /\ ~stopping
  /\ pc # "done"
  /\ stopping' = TRUE
  /\ UNCHANGED <<jobVars, peerVars, unitVars, featureVars, requeueVars, deadlinePassed,
                 pc, state, result, endTimeSet, sleepTime, termVars, loopVars,
                 lockVars, versionPolls, hist>>

\* steady_clock::now() reaches _endTimeForAttempt.
DeadlineElapses ==
  /\ endTimeSet
  /\ ~deadlinePassed
  /\ pc \notin {"returned", "versionWait", "bump", "unlock", "finish", "done"}
  /\ deadlinePassed' = TRUE
  /\ UNCHANGED <<jobVars, peerVars, unitVars, featureVars, requeueVars, stopping,
                 pc, state, result, endTimeSet, sleepTime, termVars, loopVars,
                 lockVars, versionPolls, hist>>

\* ------------------------------------------------------------- backoff
Min(a, b) == IF a < b THEN a ELSE b

\* Mutant: the sum 1 + ... + n is not halved.
BackoffDelay_NotHalved(n) ==
  IF n >= delayThreshold
    THEN Min(sleepBase + n * (n + 1), sleepCap)
    ELSE 0

\* Mutant: the delay is not capped.
BackoffDelay_NoCap(n) ==
  IF n >= delayThreshold
    THEN sleepBase + (n * (n + 1)) \div 2
    ELSE 0

\* The delay of first() for n failures in a row, in tenths of a second.
BackoffDelay(n) ==
  IF n >= delayThreshold
    THEN Min(sleepBase + (n * (n + 1)) \div 2, sleepCap)
    ELSE 0

\* first(), up to the sleep loop: read the failure counter, compute the delay.
FirstEnter ==
  /\ pc = "start"
  /\ sleepTime' = BackoffDelay(replErrors)
  /\ pc' = "backoff"
  /\ UNCHANGED <<jobVars, peerVars, unitVars, featureVars, requeueVars, envVars, state, result,
                 endTimeSet, termVars, loopVars, lockVars, versionPolls, hist>>

\* Mutant: a round sleeps all that is left.
RoundSleep_Whole(left) == left

\* Lines 747-749: what one round of the sleep loop sleeps.
RoundSleep(left) == Min(left, sleepPerRound)

\* One round of the sleep loop.
BackoffSleep ==
  /\ pc = "backoff"
  /\ sleepTime > 0
  /\ IF stopping
       THEN /\ Return(SHUTTING_DOWN)
            /\ hist' = [hist EXCEPT !.nap = 0]
            /\ UNCHANGED sleepTime
       ELSE /\ hist' = [hist EXCEPT !.slept = @ + RoundSleep(sleepTime),
                                    !.nap = RoundSleep(sleepTime)]
            /\ sleepTime' = sleepTime - sleepPerRound
            /\ UNCHANGED <<pc, result>>
  /\ UNCHANGED <<jobVars, peerVars, unitVars, featureVars, requeueVars, envVars, state,
                 endTimeSet, termVars, loopVars, lockVars, versionPolls>>

\* ------------------------------------------------------- readiness wait
Contains(s, x) == \E i \in DOMAIN s : s[i] = x

\* What Plan and Current can show for the shard.
PlanSnapshots == {<<>>, <<Leader, Ourselves>>, <<Leader, Other>>,
                  <<Other, Ourselves>>}
CurrentSnapshots == {<<>>, <<Leader>>, <<Leader, Ourselves>>,
                     <<Other, Ourselves>>}

\* Mutant: the forced resync is not looked at.
ReadinessDecision_NoForce(resOk, planned, ciFound, current, forced) ==
  IF ~resOk \/ ~Contains(planned, Ourselves) \/ planned[1] # Leader
    THEN "cancelled"
  ELSE IF ~ciFound THEN "noCollection"
  ELSE IF current = <<>> THEN "wait"
  ELSE IF current[1] = Leader
    THEN IF ~Contains(current, Ourselves) THEN "proceed" ELSE "alreadyDone"
  ELSE "notLeading"

\* The decision of one poll of the readiness loop (first(), lines 774-846).
ReadinessDecision(resOk, planned, ciFound, current, forced) ==
  IF ~resOk \/ ~Contains(planned, Ourselves) \/ planned[1] # Leader
    THEN "cancelled"
  ELSE IF ~ciFound THEN "noCollection"
  ELSE IF current = <<>> THEN "wait"
  ELSE IF current[1] = Leader
    THEN IF ~Contains(current, Ourselves) THEN "proceed"
         ELSE IF forced THEN "proceed"
         ELSE "alreadyDone"
  ELSE "notLeading"

\* One iteration of the readiness loop.
WaitForLeader ==
  /\ pc = "backoff"
  /\ sleepTime <= 0
  /\ IF stopping THEN
       /\ Return(SHUTTING_DOWN)
       /\ hist' = [Start(hist, "readiness") EXCEPT !.nap = 0]
     ELSE
       \E resOk \in BOOLEAN, planned \in PlanSnapshots, ciFound \in BOOLEAN,
          current \in CurrentSnapshots :
         LET d == ReadinessDecision(resOk, planned, ciFound, current, forcedResync)
             h == [Start(hist, "readiness") EXCEPT
                     !.poll = [resOk |-> resOk, planned |-> planned,
                               ciFound |-> ciFound, current |-> current,
                               polled |-> TRUE],
                     \* line 852: the sleep at the end of the loop body
                     !.nap = IF d = "wait" THEN pollSleep ELSE 0]
         IN IF d = "wait"
              THEN /\ hist' = h
                   /\ UNCHANGED <<pc, result>>
            ELSE IF d = "proceed"
              THEN /\ pc' = "count"
                   /\ hist' = Succeed(h, "readiness")
                   /\ UNCHANGED result
            ELSE /\ Return(FAILED_ERR)
                 /\ hist' = [h EXCEPT !.cause = d]
  /\ UNCHANGED <<jobVars, peerVars, unitVars, featureVars, requeueVars, envVars, state, endTimeSet,
                 sleepTime, termVars, loopVars, lockVars, versionPolls>>

\* ------------------------------------------------------ counts, requeue
\* Mutant: a difference of exactly the threshold requeues as well.
MustRequeue_AtThreshold(prio, docCount, docCountOnLeader) ==
  /\ prio # "slow"
  /\ \/ docCountOnLeader - docCount >= requeueThreshold
     \/ docCount - docCountOnLeader >= requeueThreshold

\* first(), lines 901-905: the job is moved to the slow lane.
MustRequeue(prio, docCount, docCountOnLeader) ==
  /\ prio # "slow"
  /\ docCount # docCountOnLeader
  /\ \/ (docCount < docCountOnLeader /\ docCountOnLeader - docCount > requeueThreshold)
     \/ (docCount > docCountOnLeader /\ docCount - docCountOnLeader > requeueThreshold)

\* Mutant: the deadline is set whatever the protocol of the sync.
ArmsDeadline_AnyProtocol(byRevision, timeout) == timeout > 0

\* first(), lines 929-946: the attempt gets a deadline.
ArmsDeadline(byRevision, timeout) == byRevision /\ timeout > 0

\* What the steps of first(), lines 858-899, can end with before the counts
\* are compared: the DatabaseGuard throws (line 1131), the local shard is not
\* found, the count on the leader fails, the count here fails.
CountFailures ==
  {INTERNAL, DATA_SOURCE_NOT_FOUND} \cup RpcErrors

\* first(), lines 858-958: look up the local shard, count on the leader and
\* here, requeue or go on; then the deadline and the tailing syncer.
CountAndRequeue ==
  /\ pc = "count"
  /\ \/ \E code \in CountFailures :
          /\ Return(code)
          /\ UNCHANGED <<requeueVars, endTimeSet, syncerLeaderId, hist>>
     \/ \E docCount \in StartCounts, docCountOnLeader \in StartCounts :
          /\ hist' = [hist EXCEPT !.counts = <<docCount, docCountOnLeader>>]
          /\ IF MustRequeue(priority, docCount, docCountOnLeader) THEN
               \* requeueMe(maintenance::SLOW_OP_PRIORITY), line 913
               /\ requeued' = TRUE
               /\ requeuePriority' = "slow"
               /\ Return(ACTION_UNFINISHED)
               /\ UNCHANGED <<endTimeSet, syncerLeaderId>>
             ELSE
               /\ endTimeSet' = ArmsDeadline(syncByRevision, attemptTimeout)
               /\ syncerLeaderId' = <<Leader>>
               /\ pc' = "sync"
               /\ UNCHANGED <<requeueVars, result>>
  /\ UNCHANGED <<jobVars, peerVars, unitVars, featureVars, envVars, state, sleepTime,
                 followingTermId, tailingUpperBoundTick, theLeader, loopVars,
                 lockVars, versionPolls>>

\* ------------------------------------------------------------ bulk sync
\* A syncer call returns while time goes on.
TimePasses(later) ==
  deadlinePassed' = (deadlinePassed \/ (endTimeSet /\ later))

\* Mutant: the error is re-tagged while the deadline has not passed.
SyncErrorCode_Inverted(code, hasDeadline, passed) ==
  IF hasDeadline /\ ~passed THEN ATTEMPT_TIMEOUT ELSE code

\* Mutant: the failure of an aborted bulk sync keeps the syncer's code.
SyncErrorCode_NoRetag(code, hasDeadline, passed) == code

\* first(), lines 1025-1032: a failed bulk sync after the deadline is re-tagged.
SyncErrorCode(code, hasDeadline, passed) ==
  IF hasDeadline /\ passed THEN ATTEMPT_TIMEOUT ELSE code

\* Why a bulk sync fails: its cancellation callback (lines 612-654) saw the
\* deadline or a changed plan, or something else went wrong (lines 662-699).
SyncFailures == {"deadline", "plan", "other"}

\* Lines 617-618 (and 1070-1071 for the tailing): the deadline is set and
\* the clock has reached it.
DeadlineReached(hasDeadline, passed) == hasDeadline /\ passed

\* Mutant: the first entry of the planned list is not compared with the leader.
StillFollower_AnyLeader(plan, leaderId) ==
  /\ plan.kind = "array"
  /\ Len(plan.items) >= 2
  /\ \E i \in 2..Len(plan.items) :
       plan.items[i].isString /\ plan.items[i].text = Ourselves

\* Lines 634-648: the plan is there, is an array of at least two entries,
\* starts with the leader of the config and names this server after it.
StillFollower(plan, leaderId) ==
  /\ plan.kind # "none"
  /\ plan.kind = "array"
  /\ Len(plan.items) >= 2
  /\ plan.items[1].isString
  /\ plan.items[1].text = leaderId
  /\ \E i \in 2..Len(plan.items) :
       plan.items[i].isString /\ plan.items[i].text = Ourselves

\* The cancellation callback of replicationSynchronize, lines 612-654: true
\* (abort) at the deadline, false while the plan still shows this server as a
\* follower of the leader, true otherwise.
CancellationCheck(hasDeadline, passed, plan, leaderId) ==
  IF DeadlineReached(hasDeadline, passed) THEN TRUE
  ELSE IF StillFollower(plan, leaderId) THEN FALSE
  ELSE TRUE

\* One evaluation of the callback with the LEADER_ID that first() puts into
\* the config (line 989).
CancellationCallback ==
  /\ probe.answer = "none"
  /\ probe' = [probe EXCEPT !.answer =
                 IF CancellationCheck(probe.hasDeadline, probe.passed,
                                      probe.plan, Leader)
                   THEN "abort" ELSE "goOn"]
  /\ UNCHANGED <<jobVars, featureVars, requeueVars, envVars, pc, state, result,
                 endTimeSet, sleepTime, termVars, loopVars, lockVars,
                 versionPolls, hist, peerVars, tasks, scc>>

\* first(), lines 973-1086: the stopping check, the leader pointer without a
\* term, replicationSynchronize and the check of what it processed.
ReplicationSynchronize ==
  /\ pc = "sync"
  /\ IF stopping THEN
       /\ Return(SHUTTING_DOWN)
       /\ UNCHANGED <<theLeader, deadlinePassed, loopVars, hist>>
     ELSE
       LET h == Start(hist, "bulk") IN
       /\ theLeader' = <<Leader>>
       /\ \E later \in BOOLEAN : TimePasses(later)
       /\ \/ \E cause \in SyncFailures, code \in RpcErrors :
               /\ cause = "deadline" =>
                    DeadlineReached(endTimeSet, deadlinePassed')
               /\ Return(SyncErrorCode(code, endTimeSet, deadlinePassed'))
               /\ hist' = [h EXCEPT !.cause = cause]
               /\ UNCHANGED loopVars
          \/ \* the shard is not the first processed collection, lines 1048-1059
             /\ Return(INTERNAL)
             /\ hist' = h
             /\ UNCHANGED loopVars
          \/ \E tick \in 1..MaxTick :
               /\ hist' = Succeed(h, "bulk")
               /\ lastLogTick' = tick
               \* locals of catchupWithReadLock, lines 1159-1162
               /\ didTimeout' = TRUE
               /\ tries' = 0
               /\ tickReached' = 0
               /\ pc' = "softLoop"
               /\ UNCHANGED result
  /\ UNCHANGED <<jobVars, peerVars, unitVars, featureVars, requeueVars, stopping, state, endTimeSet,
                 sleepTime, followingTermId, tailingUpperBoundTick,
                 syncerLeaderId, lockVars, versionPolls>>

\* ------------------------------------------------- locks on the leader
\* Basics/ScopeGuard.h: a guard runs its callback when it is fired or when its
\* scope ends, unless it was cancelled or has fired before.
GuardRuns(guard) == guard = "armed"

\* One call of cancelReadLockOnLeader (lines 341-392) or the DELETE of
\* getReadLock (lines 526-542), carrying lock id `id`.
CancelCall(h, id, ok) ==
  [h EXCEPT !.cancels = @ + 1,
            !.cancelRight = @ /\ id = h.acquire.id,
            !.cancelOk = ok]

\* The guard's callback (lines 1189-1206, 1299-1316) is one call of
\* cancelReadLockOnLeader with lockJobId; what it returns is only logged.
ScopeExit(h, guard, id, ok) ==
  IF GuardRuns(guard) THEN CancelCall(h, id, ok) ELSE h

\* startReadLockOnLeader (lines 549-570) with getReadLockId (181-224) and
\* getReadLock (428-547).  What the leader does with the requests:
\*   "idFail"       the GET of a lock id failed: no POST, no DELETE
\*   "connectFail"  the POST could not connect: no DELETE
\*   "postFail"     the POST failed otherwise: one DELETE for the same id
\*   "ok"           the POST succeeded; term and upper are the fields
\*                  followingTermId and lastLogTick of the response
Answer(outcome, id, code, term, upper, cancelOk) ==
  [outcome |-> outcome, id |-> id, code |-> code, term |-> term,
   upper |-> upper, cancelOk |-> cancelOk]

AcquireAnswers ==
  {Answer("idFail", 0, c, Absent, Absent, TRUE) : c \in RpcErrors}
  \cup {Answer("connectFail", i, INTERNAL, Absent, Absent, TRUE) : i \in LockIds}
  \cup {Answer("postFail", i, c, Absent, Absent, k) :
          i \in LockIds, c \in RpcErrors, k \in BOOLEAN}
  \cup {Answer("ok", i, NO_ERROR, t, u, TRUE) :
          i \in LockIds, t \in TermFields, u \in TickFields}

\* Mutant: the DELETE is sent after every failed POST.
AcquireSendsCancel_AnyPostFailure(outcome) ==
  outcome \in {"postFail", "connectFail"}

\* The DELETE of getReadLock, lines 519-542.
AcquireSendsCancel(outcome) == outcome = "postFail"

\* Mutant: the term id is taken from the response of any lock, soft or hard.
TermAfterLock_AnyLock(soft, field, old) ==
  IF field.has THEN field.val ELSE old

\* getReadLock, lines 491-513: the fields of a successful response.
TermAfterLock(soft, field, old) ==
  IF ~soft /\ field.has THEN field.val ELSE old

\* Mutant: the lastLogTick field is picked up from the response of any lock.
UpperBoundAfterLock_AnyLock(soft, field, old) ==
  IF field.has THEN field.val ELSE old

\* Mutant: the lastLogTick field of the response is not picked up.
UpperBoundAfterLock_Ignored(soft, field, old) == old

\* getReadLock, lines 502-509: the upper bound for the tailing under the lock.
UpperBoundAfterLock(soft, field, old) ==
  IF ~soft /\ field.has THEN field.val ELSE old

\* The history after an acquire call with answer a.
Acquired(h, mode, a) ==
  LET b == [h EXCEPT !.acquire = [mode |-> mode, outcome |-> a.outcome,
                                  id |-> a.id],
                     !.cancels = 0, !.cancelRight = TRUE, !.cancelOk = TRUE]
  IN IF AcquireSendsCancel(a.outcome) THEN CancelCall(b, a.id, a.cancelOk) ELSE b

\* A response that carries a following term id and a lastLogTick, both
\* other than 0.
CarriesFields(a) ==
  a.term.has /\ a.term.val > 0 /\ a.upper.has /\ a.upper.val > 0

\* The soft-lock loop is over: its responses are not remembered.
Forget(h) == [h EXCEPT !.softFields = FALSE]

\* The locals of catchupWithReadLock go out of scope.
LeaveLoop ==
  /\ lastLogTick' = 0
  /\ tickReached' = 0
  /\ didTimeout' = FALSE
  /\ tries' = 0

\* ------------------------------------------------------- soft-lock loop
\* Mutant: the loop goes on whether or not the catch-up timed out.
LoopGoesOn_IgnoresTimeout(timedOut, n) == n < maxTries

\* Mutant: the loop goes on for one more try.
LoopGoesOn_OneMore(timedOut, n) == timedOut /\ n <= maxTries

\* Mutant: the soft-lock loop is never entered.
LoopGoesOn_Never(timedOut, n) == FALSE

\* The loop condition of catchupWithReadLock, line 1163.
LoopGoesOn(timedOut, n) == timedOut /\ n < maxTries

\* Lines 1189-1206: the guard of the soft lock.
SoftGuard == "armed"

\* Mutant: the explicit release leaves the guard armed.
GuardAfterCancel_StillArmed == "armed"

\* Line 1247: the explicit cancel disarms the guard.
GuardAfterCancel == "cancelled"

\* Lines 1163-1206: the loop condition, the stopping check and the soft lock.
SoftLockAcquire ==
  /\ pc = "softLoop"
  /\ LoopGoesOn(didTimeout, tries)
  /\ IF stopping THEN
       /\ Return(SHUTTING_DOWN)
       /\ LeaveLoop
       /\ hist' = Forget(hist)
       /\ UNCHANGED <<followingTermId, tailingUpperBoundTick, lockVars>>
     ELSE
       \E a \in AcquireAnswers :
         LET h == Acquired(Start(hist, "softAcquire"), "soft", a) IN
         IF a.outcome = "ok" THEN
           /\ followingTermId' = TermAfterLock(TRUE, a.term, followingTermId)
           /\ tailingUpperBoundTick' =
                UpperBoundAfterLock(TRUE, a.upper, tailingUpperBoundTick)
           /\ lockJobId' = a.id
           /\ readLockGuard' = SoftGuard
           /\ tries' = tries + 1
           /\ didTimeout' = FALSE
           /\ pc' = "catchup"
           /\ hist' = [Succeed(h, "softAcquire") EXCEPT
                         !.softFields = @ \/ CarriesFields(a)]
           /\ UNCHANGED <<result, lastLogTick, tickReached, docCountAtEnd>>
         ELSE
           /\ Return(a.code)
           /\ LeaveLoop
           /\ hist' = Forget(h)
           /\ UNCHANGED <<followingTermId, tailingUpperBoundTick, lockVars>>
  /\ UNCHANGED <<jobVars, peerVars, unitVars, featureVars, requeueVars, envVars, state, endTimeSet,
                 sleepTime, theLeader, syncerLeaderId, versionPolls>>

\* DatabaseTailingSyncer: the call ends with this error when the cancellation
\* callback of first(), lines 1064-1082, answers true.
TailingAbortCode == ATTEMPT_TIMEOUT

\* How a tailing call can fail: a failing Result ("fail"), an exception
\* ("throws", lines 1229-1231 and 1341-1343), or the abort by the
\* cancellation callback ("abort").
TailingFailures ==
  {[kind |-> "fail", code |-> c] : c \in RpcErrors}
  \cup {[kind |-> "throws", code |-> INTERNAL],
        [kind |-> "abort", code |-> TailingAbortCode]}

\* Lines 1233-1239: the error catchupWithReadLock returns for a failed catch-up.
CatchupErrorCode(code) == code

\* The soft lock's scope ends and catchupWithReadLock returns.
LeaveReadLock(h, cancelOk) ==
  /\ hist' = Forget(ScopeExit(h, readLockGuard, lockJobId, cancelOk))
  /\ readLockGuard' = "none"
  /\ lockJobId' = 0
  /\ LeaveLoop

\* Lines 1222-1239: WAL tailing under the soft lock.
SoftCatchup ==
  /\ pc = "catchup"
  /\ \E later \in BOOLEAN : TimePasses(later)
  /\ LET h == Start(hist, "catchup") IN
     \/ \E tick \in Ticks, timedOut \in BOOLEAN :
          /\ tickReached' = tick
          /\ didTimeout' = timedOut
          /\ pc' = "softCancel"
          /\ hist' = Succeed(h, "catchup")
          /\ UNCHANGED <<result, lastLogTick, tries, lockJobId, readLockGuard>>
     \/ \E f \in TailingFailures, cancelOk \in BOOLEAN :
          /\ f.kind = "abort" => (endTimeSet /\ deadlinePassed')
          /\ Return(CatchupErrorCode(f.code))
          /\ LeaveReadLock([h EXCEPT !.cause = IF f.kind = "abort"
                                                 THEN "deadline" ELSE "other"],
                           cancelOk)
  /\ UNCHANGED <<jobVars, peerVars, unitVars, featureVars, requeueVars, stopping, state, endTimeSet,
                 sleepTime, termVars, docCountAtEnd, versionPolls>>

\* Mutant: a failed explicit cancel is only logged.
SoftCancelFatal_Never(ok) == FALSE

\* Mutant: the attempt ends when the explicit cancel succeeded.
SoftCancelFatal_Inverted(ok) == ok

\* Lines 1248-1255: a failed explicit cancel ends the attempt.
SoftCancelFatal(ok) == ~ok

\* Lines 1241-1261: the explicit cancel of the soft lock.
SoftLockCancel ==
  /\ pc = "softCancel"
  /\ \E ok \in BOOLEAN :
       LET h == CancelCall(Start(hist, "softCancel"), lockJobId, ok) IN
       IF ~SoftCancelFatal(ok) THEN
         /\ lastLogTick' = tickReached
         /\ pc' = "softLoop"
         \* end of the loop body: the scope of the guard ends
         /\ hist' = Succeed(ScopeExit(h, GuardAfterCancel, lockJobId, TRUE),
                            "softCancel")
         /\ readLockGuard' = "none"
         /\ lockJobId' = 0
         /\ UNCHANGED <<result, tickReached, didTimeout, tries>>
       ELSE
         /\ Return(INTERNAL)
         /\ hist' = Forget(ScopeExit(h, GuardAfterCancel, lockJobId, TRUE))
         /\ readLockGuard' = "none"
         /\ lockJobId' = 0
         /\ LeaveLoop
  /\ UNCHANGED <<jobVars, peerVars, unitVars, featureVars, requeueVars, envVars, state, endTimeSet,
                 sleepTime, termVars, docCountAtEnd, versionPolls>>

\* ------------------------------------------------------ hard-lock phase
\* Mutant: the term is not appended to the leader id.
LeaderIdWithTerm_Plain(term) == <<Leader>>

\* Lines 1323-1327: the leader id with the following term id appended.
LeaderIdWithTerm(term) ==
  IF term # 0 THEN <<Leader, "_", term>> ELSE <<Leader>>

\* Mutant: no guard is installed for the hard lock.
HardGuard_Missing == "none"

\* Mutant: the guard of the hard lock is disarmed from the start.
HardGuard_Disarmed == "cancelled"

\* Lines 1299-1316: the guard of the hard lock.
HardGuard == "armed"

\* The end of the soft-lock loop (lines 1262-1268), first() lines 1091-1101
\* and catchupWithExclusiveLock lines 1278-1334: the hard lock, the leader
\* pointer and the tailing syncer's leader id.
HardLockAcquire ==
  /\ pc = "softLoop"
  /\ ~LoopGoesOn(didTimeout, tries)
  /\ \E a \in AcquireAnswers :
       LET h == [Forget(Acquired(Start(hist, "hardAcquire"), "hard", a))
                   EXCEPT !.hardTerm = a.term, !.hardUpper = a.upper]
           t == TermAfterLock(FALSE, a.term, followingTermId)
       IN IF a.outcome = "ok" THEN
            /\ followingTermId' = t
            /\ tailingUpperBoundTick' =
                 UpperBoundAfterLock(FALSE, a.upper, tailingUpperBoundTick)
            /\ theLeader' = LeaderIdWithTerm(t)
            /\ syncerLeaderId' = LeaderIdWithTerm(t)
            /\ lockJobId' = a.id
            /\ readLockGuard' = HardGuard
            /\ lastLogTick' = tickReached
            /\ tickReached' = 0
            /\ didTimeout' = FALSE
            /\ tries' = 0
            /\ pc' = "finalize"
            /\ hist' = Succeed(h, "hardAcquire")
            /\ UNCHANGED <<result, docCountAtEnd>>
          ELSE
            /\ Return(a.code)
            /\ LeaveLoop
            /\ hist' = h
            /\ UNCHANGED <<termVars, lockVars>>
  /\ UNCHANGED <<jobVars, peerVars, unitVars, featureVars, requeueVars, envVars, state, endTimeSet,
                 sleepTime, versionPolls>>

\* catchupWithExclusiveLock returns: the scope of the hard lock's guard ends.
LeaveExclusive(h, cancelOk) ==
  /\ hist' = ScopeExit(h, readLockGuard, lockJobId, cancelOk)
  /\ readLockGuard' = "none"
  /\ lockJobId' = 0
  /\ lastLogTick' = 0

\* Mutant: a failed finalize is returned as success.
FinalizeErrorCode_Swallowed(code) == NO_ERROR

\* Lines 1345-1351: the error returned for a failed finalize.
FinalizeErrorCode(code) == code

\* Lines 1336-1351: WAL tailing under the hard lock.
Finalize ==
  /\ pc = "finalize"
  /\ \E later \in BOOLEAN : TimePasses(later)
  /\ LET h == Start(hist, "finalize") IN
     \/ /\ pc' = "addFollower"
        /\ hist' = Succeed([h EXCEPT !.finalRes = NO_ERROR], "finalize")
        /\ UNCHANGED <<result, lastLogTick, lockJobId, readLockGuard>>
     \/ \E f \in TailingFailures, cancelOk \in BOOLEAN :
          /\ f.kind = "abort" => (endTimeSet /\ deadlinePassed')
          /\ Return(FinalizeErrorCode(f.code))
          /\ LeaveExclusive([h EXCEPT !.cause = IF f.kind = "abort"
                                                  THEN "deadline" ELSE "other",
                                      !.finalRes = f.code],
                            cancelOk)
  /\ UNCHANGED <<jobVars, peerVars, unitVars, featureVars, requeueVars, stopping, state, endTimeSet,
                 sleepTime, termVars, tickReached, didTimeout, tries,
                 docCountAtEnd, versionPolls>>

\* Mutant: the request never carries the lock id.
AddFollowerBody_NoLock(lockId, docCount) ==
  [sent |-> TRUE, hasLockId |-> FALSE, readLockId |-> 0, checksum |-> docCount]

\* addShardFollower, lines 275-294: the body of the request.
AddFollowerBody(lockId, docCount) ==
  [sent |-> TRUE, hasLockId |-> lockId # 0, readLockId |-> lockId,
   checksum |-> docCount]

\* How addShardFollower can end without a request (lines 242-271): the pool
\* is gone (only while the server stops), the DatabaseGuard throws, the local
\* shard is not found, the local count fails.
AddFollowerEarly ==
  {[kind |-> "noPool", code |-> SHUTTING_DOWN],
   [kind |-> "noDatabase", code |-> DATABASE_NOT_FOUND],
   [kind |-> "noShard", code |-> DATA_SOURCE_NOT_FOUND],
   [kind |-> "countFail", code |-> INTERNAL]}

\* What the leader answers to the request.
AddFollowerAnswers == {NO_ERROR, WRONG_CHECKSUM} \cup RpcErrors

\* Line 1369: the reconciliation is entered.
IsChecksumMismatch(code) == code = WRONG_CHECKSUM

\* Lines 1369-1372 and 1458-1470: what follows from add-follower's result res,
\* with history h.
AfterAddFollower(res, h) ==
  IF IsChecksumMismatch(res) THEN
    \* readLockGuard.fire()
    /\ \E cancelOk \in BOOLEAN :
         hist' = ScopeExit(h, readLockGuard, lockJobId, cancelOk)
    /\ readLockGuard' = "fired"
    /\ pc' = "recount"
    /\ UNCHANGED <<result, lockJobId, lastLogTick>>
  ELSE IF res # NO_ERROR THEN
    /\ Return(res)
    /\ \E cancelOk \in BOOLEAN : LeaveExclusive(h, cancelOk)
  ELSE
    /\ Return(NO_ERROR)
    /\ \E cancelOk \in BOOLEAN : LeaveExclusive(Succeed(h, "addFollower"), cancelOk)

\* Lines 1353-1372 and 1458-1470: add-follower.
AddFollower ==
  /\ pc = "addFollower"
  /\ LET h0 == Start(hist, "addFollower") IN
     \/ \E e \in AddFollowerEarly :
          /\ e.kind = "noPool" => stopping
          /\ AfterAddFollower(e.code, [h0 EXCEPT !.addRes = e.code])
          /\ UNCHANGED docCountAtEnd
     \/ \E docCount \in Counts, res \in AddFollowerAnswers :
          /\ docCountAtEnd' = docCount
          /\ AfterAddFollower(res,
               [h0 EXCEPT !.addReq = AddFollowerBody(lockJobId, docCount),
                          !.addRes = res])
  /\ UNCHANGED <<jobVars, peerVars, unitVars, featureVars, requeueVars, envVars, state, endTimeSet,
                 sleepTime, termVars, tickReached, didTimeout, tries,
                 versionPolls>>

\* Mutant: the leader is asked to recount whatever the local recount did.
AsksLeader_Always(oldCount, newCount) == TRUE

\* Line 1403: the leader is asked to recount.
AsksLeader(oldCount, newCount) == oldCount = newCount

\* Lines 1384-1401: the local count and the forced local recount.
FollowerRecount ==
  /\ pc = "recount"
  /\ LET h == Start(hist, "recount") IN
     \/ \E code \in LocalErrors, cancelOk \in BOOLEAN :
          /\ Return(code)
          /\ LeaveExclusive([h EXCEPT !.recountRes = "localFail"], cancelOk)
     \/ \E oldCount \in Counts, newCount \in Counts :
          /\ pc' = "compare"
          /\ hist' = [h EXCEPT !.recount = <<oldCount, newCount>>]
          /\ UNCHANGED <<result, lockJobId, readLockGuard, lastLogTick>>
  /\ UNCHANGED <<jobVars, peerVars, unitVars, featureVars, requeueVars, envVars, state, endTimeSet,
                 sleepTime, termVars, tickReached, didTimeout, tries,
                 docCountAtEnd, versionPolls>>

\* Lines 1402-1403 and 1449-1455: the two counts are compared; when the
\* recount changed the count the checksum mismatch is returned.
CompareCounts ==
  /\ pc = "compare"
  /\ LET h == [hist EXCEPT !.recount = <<>>] IN
     IF AsksLeader(hist.recount[1], hist.recount[2]) THEN
       /\ pc' = "leaderRecount"
       /\ hist' = h
       /\ UNCHANGED <<result, lockJobId, readLockGuard, lastLogTick>>
     ELSE
       /\ Return(WRONG_CHECKSUM)
       /\ \E cancelOk \in BOOLEAN :
            LeaveExclusive([h EXCEPT !.recountRes = "changed"], cancelOk)
  /\ UNCHANGED <<jobVars, peerVars, unitVars, featureVars, requeueVars, envVars, state, endTimeSet,
                 sleepTime, termVars, tickReached, didTimeout, tries,
                 docCountAtEnd, versionPolls>>

\* Mutant: the attempt returns what the recount request returned.
LeaderRecountCode_Heals(res, answer) == answer

\* Mutant: the attempt returns the checksum mismatch whatever the recount did.
LeaderRecountCode_Original(res, answer) == res

\* Lines 1431-1455: the Result after the leader's answer to the recount
\* request, res being add-follower's result.
LeaderRecountCode(res, answer) ==
  IF answer # NO_ERROR THEN answer ELSE res

\* Lines 1403-1455: the recount request to the leader.
LeaderRecount ==
  /\ pc = "leaderRecount"
  /\ \E answer \in {NO_ERROR} \cup RpcErrors, cancelOk \in BOOLEAN :
       /\ Return(LeaderRecountCode(WRONG_CHECKSUM, answer))
       /\ LeaveExclusive([hist EXCEPT !.recountRes = answer], cancelOk)
  /\ UNCHANGED <<jobVars, peerVars, unitVars, featureVars, requeueVars, envVars, state, endTimeSet,
                 sleepTime, termVars, tickReached, didTimeout, tries,
                 docCountAtEnd, versionPolls>>

\* ------------------------------------------------------------ setState
\* MaintenanceWorker: when first() has returned false, the action's state
\* becomes COMPLETE if its result is ok and FAILED otherwise.
FinalState(code) == IF code = NO_ERROR THEN "COMPLETE" ELSE "FAILED"

\* MaintenanceFeature::storeReplicationError and removeReplicationError.
StoreReplicationError(n) == n + 1
RemoveReplicationError(n) == 0

\* Mutant: a requeue is not told apart from a failure.
HaveRequeued_Never(code) == FALSE

\* Mutant: the attempt timeout is not told apart from a failure.
IsTimeoutExceeded_Never(code) == FALSE

\* setState, lines 1475 and 1504-1505.
HaveRequeued(code) == code = ACTION_UNFINISHED
IsTimeoutExceeded(code) == code = ATTEMPT_TIMEOUT

\* setState, lines 1488-1511: the failure counter after the transition.
ErrorsAfter(newState, code, n) ==
  IF newState = "COMPLETE" THEN RemoveReplicationError(n)
  ELSE IF ~HaveRequeued(code) /\ ~IsTimeoutExceeded(code)
    THEN StoreReplicationError(n)
  ELSE n

\* setState, lines 1499-1515: the counter of timed-out attempts.
TimeoutsAfter(newState, code, n) ==
  IF newState = "FAILED" /\ IsTimeoutExceeded(code) THEN n + 1 ELSE n

\* Mutant: the side effects run for every terminal state that is asked for.
RunsSideEffects_Always(requested, current) ==
  requested \in {"COMPLETE", "FAILED"}

\* setState, line 1474: the side effects run for a terminal state that is
\* not the state the action is in.
RunsSideEffects(requested, current) ==
  requested \in {"COMPLETE", "FAILED"} /\ current # requested

\* setState, lines 1473-1516: the counters.
SetStateCounters ==
  /\ pc = "returned"
  /\ RunsSideEffects(FinalState(result), state)
  /\ replErrors' = ErrorsAfter(FinalState(result), result, replErrors)
  /\ timedOutAttempts' = TimeoutsAfter(FinalState(result), result, timedOutAttempts)
  /\ pc' = "versionWait"
  /\ UNCHANGED <<jobVars, peerVars, unitVars, shardLocked, shardVersion, requeueVars, envVars, state,
                 result, endTimeSet, sleepTime, termVars, loopVars, lockVars,
                 versionPolls, hist>>

\* cluster::fetchCurrentVersion with its own timeout of 60 s, waited for:
\* it comes back, with a version (v > 0) or without one.
FetchCurrentVersion == BOOLEAN

\* Mutant: the wait does not look at the stopping flag.
WaitGoesOn_IgnoresStopping(stop, polls) == polls < MaxVersionPolls

\* setState, lines 1526-1527: the wait goes on while the server is not
\* stopping and the 600 s are not over.
WaitGoesOn(stop, polls) == ~stop /\ polls < MaxVersionPolls

\* setState, lines 1526-1551: one round of the wait for the agency's version.
VersionPoll ==
  /\ pc = "versionWait"
  /\ WaitGoesOn(stopping, versionPolls)
  /\ \E got \in FetchCurrentVersion :
       IF got THEN /\ pc' = "bump"
                   /\ UNCHANGED versionPolls
              ELSE /\ versionPolls' = versionPolls + 1
                   /\ UNCHANGED pc
  /\ UNCHANGED <<jobVars, peerVars, unitVars, featureVars, requeueVars, envVars, state, result,
                 endTimeSet, sleepTime, termVars, loopVars, lockVars, hist>>

\* setState, lines 1553-1564: the wait for the version that was got, or the
\* end of the polling, and the bump of the shard's version.
IncShardVersion ==
  /\ \/ pc = "bump"
     \/ pc = "versionWait" /\ ~WaitGoesOn(stopping, versionPolls)
  /\ shardVersion' = shardVersion + 1
  /\ pc' = "unlock"
  /\ UNCHANGED <<jobVars, peerVars, unitVars, replErrors, timedOutAttempts, shardLocked,
                 requeueVars, envVars, state, result, endTimeSet, sleepTime,
                 termVars, loopVars, lockVars, versionPolls, hist>>

\* Mutant: the shard is never unlocked.
LockedAfter_Stays(code, locked) == locked

\* setState, lines 1482-1486: the shard is unlocked unless the job was requeued.
LockedAfter(code, locked) == IF HaveRequeued(code) THEN locked ELSE FALSE

\* setState, line 1565: the scope of shardUnlocker ends.
ShardUnlocker ==
  /\ pc = "unlock"
  /\ shardLocked' = LockedAfter(result, shardLocked)
  /\ pc' = "finish"
  /\ UNCHANGED <<jobVars, peerVars, unitVars, replErrors, timedOutAttempts, shardVersion,
                 requeueVars, envVars, state, result, endTimeSet, sleepTime,
                 termVars, loopVars, lockVars, versionPolls, hist>>

\* setState, line 1566: ActionBase::setState, the new state.
SetStateFinish ==
  /\ pc = "finish"
  /\ state' = FinalState(result)
  /\ pc' = "done"
  /\ UNCHANGED <<jobVars, peerVars, unitVars, featureVars, requeueVars, envVars,
                 result, endTimeSet, sleepTime, termVars, loopVars, lockVars,
                 versionPolls, hist>>

\* setState is called once more with the state the action is in, lines
\* 1473-1567: when the test of line 1474 fails only ActionBase::setState
\* runs, which stores the state it is given; otherwise the side effects run
\* again, with a new budget for the version wait.
SetStateAgain ==
  /\ pc = "done"
  /\ hist.again < MaxRepeatedCalls
  /\ hist' = [hist EXCEPT !.again = @ + 1]
  /\ LET requested == state IN
       IF RunsSideEffects(requested, state) THEN
         /\ replErrors' = ErrorsAfter(requested, result, replErrors)
         /\ timedOutAttempts' = TimeoutsAfter(requested, result, timedOutAttempts)
         /\ versionPolls' = 0
         /\ pc' = "versionWait"
         /\ UNCHANGED state
       ELSE
         /\ state' = requested
         /\ UNCHANGED <<replErrors, timedOutAttempts, versionPolls, pc>>
  /\ UNCHANGED <<jobVars, peerVars, unitVars, shardLocked, shardVersion,
                 requeueVars, envVars, result, endTimeSet, sleepTime, termVars,
                 loopVars, lockVars>>

\* ---------------------------------------------------- the other shard
\* What first() of the other attempt can leave as its result: success, a
\* failure that counts, the attempt timeout, the requeue.
PeerResults == {NO_ERROR, FAILED_ERR, ATTEMPT_TIMEOUT, ACTION_UNFINISHED}

\* first() of the other attempt returns.
PeerReturns ==
  /\ peer.pc = "running"
  /\ \E code \in PeerResults :
       peer' = [peer EXCEPT !.pc = "returned", !.result = code]
  /\ UNCHANGED <<jobVars, unitVars, featureVars, requeueVars, envVars, pc, state, result,
                 endTimeSet, sleepTime, termVars, loopVars, lockVars,
                 versionPolls, hist>>

\* Mutant: every job names the same shard to MaintenanceFeature.
ShardKey_Shared(shard) == OwnShard

\* setState, lines 1484, 1498, 1510 and 1564: the shard a job names to
\* MaintenanceFeature is getShard(), its own.
ShardKey(shard) == shard

\* setState of the other attempt: the counters, the version and the lock of
\* the shard it names; countTimedOutSyncAttempt (line 1514) has no key.
PeerSetState ==
  /\ peer.pc = "returned"
  /\ LET code == peer.result
         st == FinalState(code)
     IN /\ timedOutAttempts' = TimeoutsAfter(st, code, timedOutAttempts)
        /\ IF ShardKey(PeerShard) = PeerShard THEN
             /\ peer' = [peer EXCEPT
                           !.pc = "done",
                           !.replErrors = ErrorsAfter(st, code, @),
                           !.shardVersion = @ + 1,
                           !.shardLocked = LockedAfter(code, @)]
             /\ UNCHANGED <<replErrors, shardLocked, shardVersion>>
           ELSE
             /\ peer' = [peer EXCEPT !.pc = "done"]
             /\ replErrors' = ErrorsAfter(st, code, replErrors)
             /\ shardVersion' = shardVersion + 1
             /\ shardLocked' = LockedAfter(code, shardLocked)
  /\ UNCHANGED <<jobVars, unitVars, requeueVars, envVars, pc, state, result,
                 endTimeSet, sleepTime, termVars, loopVars, lockVars,
                 versionPolls, hist>>

\* ------------------------------------------------------- specification
Next ==
  \/ Shutdown
  \/ DeadlineElapses
  \/ FirstEnter
  \/ BackoffSleep
  \/ WaitForLeader
  \/ CountAndRequeue
  \/ ReplicationSynchronize
  \/ SoftLockAcquire
  \/ SoftCatchup
  \/ SoftLockCancel
  \/ HardLockAcquire
  \/ Finalize
  \/ AddFollower
  \/ FollowerRecount
  \/ CompareCounts
  \/ LeaderRecount
  \/ SetStateCounters
  \/ VersionPoll
  \/ IncShardVersion
  \/ ShardUnlocker
  \/ SetStateFinish
  \/ SetStateAgain

Spec == Init /\ [][Next]_vars

\* The backoff of first() alone, for every FailureState up to
\* MaxBackoffFailures, with the usual job description.
InitBackoff ==
  /\ \E n \in 0..MaxBackoffFailures :
       AfterConstructor(<<FALSE, TRUE, "normal", 1>>, n)
  /\ UnitsIdle

NextBackoff ==
  \/ Shutdown
  \/ FirstEnter
  \/ BackoffSleep

\* setState runs on the maintenance worker's thread and nothing in it
\* blocks for good: every step of it that can be taken is taken.
SetStateFairness ==
  /\ WF_vars(VersionPoll)
  /\ WF_vars(IncShardVersion)
  /\ WF_vars(ShardUnlocker)
  /\ WF_vars(SetStateFinish)

SpecBackoff == InitBackoff /\ [][NextBackoff]_vars

\* The backoff and the readiness wait of first(), the two loops that sleep.
NextSleeps ==
  \/ Shutdown
  \/ FirstEnter
  \/ BackoffSleep
  \/ WaitForLeader

SpecSleeps == InitBackoff /\ [][NextSleeps]_vars

\* The attempt with the usual job description, after MaxFailures failures in
\* a row, interleaved with the attempt for the other shard.
InitShards ==
  /\ AfterConstructor(<<FALSE, TRUE, "normal", 1>>, MaxFailures)
  /\ UnitsIdle

NextShards ==
  \/ Next
  \/ PeerReturns
  \/ PeerSetState

SpecShards == InitShards /\ [][NextShards]_vars

\* The attempt with the usual job description, after MaxFailures failures in
\* a row, with the fairness of setState.
SpecFair == InitShards /\ [][Next]_vars /\ SetStateFairness

\* The cancellation callback of the bulk sync alone, for every deadline
\* situation and every planned server list up to MaxPlanLen entries, next to
\* a job that has just been constructed.
InitCancel ==
  /\ AfterConstructor(<<FALSE, TRUE, "normal", 1>>, 0)
  /\ probe \in [hasDeadline : BOOLEAN, passed : BOOLEAN, plan : PlanValues,
                answer : {"none"}]
  /\ tasks = NoTasks
  /\ scc = NoRun

NextCancel == CancellationCallback

SpecCancel == InitCancel /\ [][NextCancel]_vars

\* MaxTasks cache tasks of either kind, dispatched and run in any order, next
\* to a job that has just been constructed.
InitTasks ==
  /\ AfterConstructor(<<FALSE, TRUE, "normal", 1>>, 0)
  /\ probe = NoProbe
  /\ \E kinds \in [1..MaxTasks -> TaskKinds] :
       tasks = [outstanding |-> 0,
                t |-> [i \in 1..MaxTasks |-> NewTask(kinds[i])]]
  /\ scc = NoRun

NextTasks ==
  \/ DispatchPrepare
  \/ DispatchPost
  \/ TaskRun

SpecTasks == InitTasks /\ [][NextTasks]_vars

\* A run of the SCC algorithm from its first global superstep, next to a job
\* that has just been constructed.
InitScc ==
  /\ AfterConstructor(<<FALSE, TRUE, "normal", 1>>, 0)
  /\ probe = NoProbe
  /\ tasks = NoTasks
  /\ scc = [stage |-> "pre", gss |-> 0, phase |-> Aggregators.phase,
            max |-> Aggregators.max, converged |-> Aggregators.converged]

NextScc ==
  \/ PreGlobalSuperstep
  \/ GlobalSuperstep

SpecScc == InitScc /\ [][NextScc]_vars


\* ============================================================== claims
\* first() has returned.
Terminal ==
  pc \in {"returned", "versionWait", "bump", "unlock", "finish", "done"}

\* setState has updated the counters.
Counted == pc \in {"versionWait", "bump", "unlock", "finish", "done"}

\* Between two rounds of the soft-lock loop, or after the loop.
SoftRoundOver == pc = "softLoop" \/ Terminal

\* C1 (as stated): in the soft-lock loop every lock-acquire call, whatever it
\* returned, has had exactly one cancel call for its lock by the time the next
\* acquire call is made or the loop returns.
C1_OneCancelPerAcquireCall ==
  (SoftRoundOver /\ hist.acquire.mode = "soft") => hist.cancels = 1

\* C1 (amended): a soft-lock acquire call that returned success has had exactly
\* one cancel call, carrying its lock id, by the time the next acquire call is
\* made or the loop returns, whatever the catch-up and the cancel returned, and
\* never more than one; a failed acquire call is followed by no cancel of the
\* loop: the acquire itself has sent one when the POST failed other than by
\* could-not-connect, and none otherwise.
C1_OneCancelPerGrantedSoftLock ==
  hist.acquire.mode = "soft" =>
    /\ hist.cancels <= 1
    /\ hist.cancelRight
    /\ SoftRoundOver =>
         hist.cancels = (IF hist.acquire.outcome \in {"ok", "postFail"}
                           THEN 1 ELSE 0)

\* C1 witness: the explicit release of a granted soft lock failed and the loop
\* returned with one cancel call issued.
C1_Witness ==
  /\ pc = "returned"
  /\ hist.acquire = [mode |-> "soft", outcome |-> "ok", id |-> MaxLockId]
  /\ hist.last = "softCancel"
  /\ ~hist.lastOk
  /\ ~hist.cancelOk
  /\ hist.cancels = 1

\* C2: once the hard lock is acquired, exactly one cancel call for it is
\* issued in the attempt, on every path: never more than one, one as soon as the
\* reconciliation runs, and one when first() has returned.
C2_HardLockCancelledOnce ==
  (hist.acquire.mode = "hard" /\ hist.acquire.outcome = "ok") =>
    /\ hist.cancels <= 1
    /\ hist.cancelRight
    /\ (Terminal \/ pc \in {"recount", "leaderRecount"}) => hist.cancels = 1
    /\ pc \in {"finalize", "addFollower"} => hist.cancels = 0

\* C2 witness: checksum mismatch, the leader's recount failed, first() returned.
C2_Witness ==
  /\ Terminal
  /\ hist.acquire.mode = "hard"
  /\ hist.addRes = WRONG_CHECKSUM
  /\ hist.recountRes \in RpcErrors
  /\ hist.cancels = 1

\* C3: add-follower is called only while the hard lock of the attempt is held
\* (acquired, no cancel call issued) and after finalize succeeded under it; the
\* request carries that lock's id and, as checksum, the local count read for it.
C3_AddFollowerUnderLock ==
  /\ pc = "addFollower" =>
       /\ hist.acquire = [mode |-> "hard", outcome |-> "ok", id |-> lockJobId]
       /\ lockJobId \in LockIds
       /\ hist.cancels = 0
       /\ hist.last = "finalize" /\ hist.lastOk
  /\ hist.addReq.sent =>
       /\ hist.acquire.mode = "hard" /\ hist.acquire.outcome = "ok"
       /\ hist.addReq.hasLockId
       /\ hist.addReq.readLockId = hist.acquire.id
       /\ hist.addReq.checksum = docCountAtEnd
       /\ "finalize" \in hist.succeeded

\* C3 witness: a request was sent with lock id MaxLockId and checksum MaxCount.
C3_Witness ==
  /\ hist.addReq.sent
  /\ hist.addReq.readLockId = MaxLockId
  /\ hist.addReq.checksum = MaxCount

\* The steps of an attempt that may follow one another directly.
StepOrder ==
  {<<"none", "readiness">>, <<"readiness", "bulk">>, <<"bulk", "softAcquire">>,
   <<"softAcquire", "catchup">>, <<"catchup", "softCancel">>,
   <<"softCancel", "softAcquire">>, <<"softCancel", "hardAcquire">>,
   <<"hardAcquire", "finalize">>, <<"finalize", "addFollower">>,
   <<"addFollower", "recount">>}

\* A step is started after a step that may precede it and that returned
\* success; the reconciliation is started after add-follower returned checksum
\* mismatch.
StepRule ==
  hist'.last # hist.last =>
    /\ <<hist.last, hist'.last>> \in StepOrder
    /\ IF hist'.last = "recount"
         THEN hist.addRes = WRONG_CHECKSUM
         ELSE hist.lastOk

\* C4: the steps of an attempt occur only in the order readiness wait, bulk
\* sync, soft-lock rounds (acquire, catch-up, cancel), hard-lock acquire,
\* finalize, add-follower, reconciliation; each is started only when the one
\* before it returned success (the reconciliation: when add-follower returned
\* checksum mismatch); no lock is requested before the bulk sync succeeded.
C4_StepsInOrder ==
  /\ [](hist.acquire.mode # "none" => "bulk" \in hist.succeeded)
  /\ [][StepRule]_vars

\* C4 witness: the reconciliation was reached.
C4_Witness ==
  /\ hist.last = "recount"
  /\ hist.succeeded = {"readiness", "bulk", "softAcquire", "catchup",
                       "softCancel", "hardAcquire", "finalize"}

\* C5: first() leaves a success result exactly when add-follower returned
\* success.
C5_SuccessIffAddFollowerOk ==
  Terminal => (result = NO_ERROR <=> hist.addRes = NO_ERROR)

\* C5 witness: the attempt completed.
C5_Witness ==
  /\ pc = "done"
  /\ result = NO_ERROR
  /\ hist.addRes = NO_ERROR

\* C6: the following term id is non-zero only if the successful hard-lock
\* response had a numeric followingTermId, whose value it then is; soft locks
\* never set it; after the hard lock the leader pointer of the shard and the
\* leader id of the tailing syncer are leader_<term> if the term id is not 0
\* and the plain leader id otherwise.
C6_FollowingTerm ==
  /\ followingTermId # 0 =>
       /\ hist.acquire.mode = "hard" /\ hist.acquire.outcome = "ok"
       /\ hist.hardTerm.has
       /\ hist.hardTerm.val = followingTermId
  /\ "hardAcquire" \in hist.succeeded =>
       /\ theLeader = (IF followingTermId # 0
                         THEN <<Leader, "_", followingTermId>>
                         ELSE <<Leader>>)
       /\ syncerLeaderId = theLeader
       /\ ~hist.hardTerm.has => followingTermId = 0

\* C6 witness: the hard lock came with term MaxTerm.
C6_Witness ==
  /\ pc = "addFollower"
  /\ followingTermId = MaxTerm
  /\ theLeader = <<Leader, "_", MaxTerm>>

\* C7: the terminal transition resets FailureState on COMPLETE, adds one on
\* FAILED unless the result is attempt-timeout or unfinished, and leaves it as
\* it was in these two cases; on attempt-timeout the timeout counter gets one
\* more.  Before the transition neither counter changes.
C7_FailureStateLifecycle ==
  /\ ~Counted => (replErrors = hist.before /\ timedOutAttempts = 0)
  /\ Counted =>
       /\ replErrors =
            (IF result = NO_ERROR THEN 0
             ELSE IF result \in {ATTEMPT_TIMEOUT, ACTION_UNFINISHED}
               THEN hist.before
             ELSE hist.before + 1)
       /\ timedOutAttempts = (IF result = ATTEMPT_TIMEOUT THEN 1 ELSE 0)

\* C7 witness: a requeued job's transition, the counter kept.
C7_Witness ==
  /\ pc = "done"
  /\ result = ACTION_UNFINISHED
  /\ hist.before = MaxFailures
  /\ replErrors = MaxFailures

C9_ChecksumMismatchFails ==
  (hist.addRes = WRONG_CHECKSUM /\ Terminal) =>
    /\ result # NO_ERROR
    /\ Counted => replErrors = hist.before + 1
    /\ pc = "done" => state = "FAILED"

\* C9 witness: the local recount changed nothing, the leader recounted.
C9_Witness ==
  /\ pc = "done"
  /\ hist.addRes = WRONG_CHECKSUM
  /\ hist.recountRes = NO_ERROR
  /\ replErrors = hist.before + 1

\* The recount request to the leader was sent and answered.
LeaderRecounted == hist.recountRes \in {NO_ERROR} \cup RpcErrors

\* C10 (as stated): when the leader recount was requested the attempt reports
\* the checksum-mismatch error, whether the recount request succeeded or failed.
C10_ReportsChecksumMismatch ==
  (Terminal /\ LeaderRecounted) => result = WRONG_CHECKSUM

\* C10 (amended): when the leader recount was requested the attempt fails: with
\* the checksum-mismatch error when the recount request succeeded, with the
\* error of the recount request when it failed.
C10_RecountErrorReported ==
  (Terminal /\ LeaderRecounted) =>
    result = (IF hist.recountRes = NO_ERROR THEN WRONG_CHECKSUM
              ELSE hist.recountRes)

\* C10 witness: the recount request failed.
C10_Witness ==
  /\ Terminal
  /\ hist.recountRes = CONNECTION_LOST
  /\ result = CONNECTION_LOST

\* The distance of two counts.
AbsDiff(a, b) == IF a < b THEN b - a ELSE a - b

\* C11: when the counts compared after the readiness wait differ by more than
\* 10000 and the job does not run at slow priority, the job asks to be requeued
\* at slow priority and returns the unfinished result, having started no bulk
\* sync and requested no lock; FailureState stays as it was and the shard stays
\* locked.  With a difference of at most 10000, or at slow priority, the job is
\* not requeued and goes on to the bulk sync.
C11_RequeueOnLargeDifference ==
  hist.counts # <<>> =>
    IF AbsDiff(hist.counts[1], hist.counts[2]) > requeueThreshold
       /\ priority # "slow"
      THEN /\ Terminal
           /\ result = ACTION_UNFINISHED
           /\ requeued
           /\ requeuePriority = "slow"
           /\ "bulk" \notin hist.started
           /\ hist.acquire.mode = "none"
           /\ replErrors = hist.before
           /\ shardLocked
      ELSE /\ ~requeued
           /\ result # ACTION_UNFINISHED
           /\ pc = "sync" \/ (Terminal /\ result = SHUTTING_DOWN)

\* C11 witness: a requeued job after its terminal transition.
C11_Witness ==
  /\ pc = "done"
  /\ hist.counts = <<0, requeueThreshold + 1>>
  /\ requeued
  /\ shardLocked
  /\ hist.before = MaxFailures
  /\ replErrors = MaxFailures

\* C12: the terminal transition of a job that ended with the unfinished
\* result neither waits for the cluster metadata version (no poll, no wait for
\* a version it got) nor bumps the local version counter of the shard.
C12_RequeueSkipsVersionSteps ==
  (Counted /\ result = ACTION_UNFINISHED) =>
    /\ versionPolls = 0
    /\ pc # "bump"
    /\ shardVersion = 0

\* What the readiness wait has come to after its most recent poll.
ReadinessOutcome ==
  IF "readiness" \in hist.succeeded THEN "proceed"
  ELSE IF Terminal /\ result = FAILED_ERR
    THEN IF hist.cause = "alreadyDone" THEN "alreadyDone" ELSE "fail"
  ELSE "wait"

\* The decision from the planned servers, the current servers and the
\* forced-resync flag alone.
SnapshotDecision(planned, current, forced) ==
  IF ~Contains(planned, Ourselves) \/ planned[1] # Leader THEN "fail"
  ELSE IF current = <<>> THEN "wait"
  ELSE IF current[1] = Leader /\ ~Contains(current, Ourselves) THEN "proceed"
  ELSE IF current[1] = Leader
    THEN IF forced THEN "proceed" ELSE "alreadyDone"
  ELSE "fail"

\* The readiness wait ends only by an outcome of a poll or by shutdown.
WaitEndsByPollOrShutdown ==
  (Terminal /\ "readiness" \notin hist.succeeded) =>
    /\ result \in {FAILED_ERR, SHUTTING_DOWN}
    /\ result = SHUTTING_DOWN => stopping
    /\ result = FAILED_ERR => hist.poll.polled

\* C13 (as stated): each poll decides from the planned servers, the current
\* servers and the forced-resync flag alone: fail on a plan mismatch, else
\* wait on an empty current set, else proceed, fail as already done or fail as
\* not leading; the wait ends only by such an outcome or by shutdown.
C13_DecidesFromSnapshotAlone ==
  /\ hist.poll.polled =>
       ReadinessOutcome =
         SnapshotDecision(hist.poll.planned, hist.poll.current, forcedResync)
  /\ WaitEndsByPollOrShutdown

\* C13 (amended): each poll fails first if the planned servers cannot be
\* looked up or the plan does not match, then fails if the collection is not
\* known to the cluster metadata, and only then decides from the current
\* servers and the forced-resync flag as stated; the wait ends only by such an
\* outcome or by shutdown.
C13_DecidesAfterLookups ==
  /\ hist.poll.polled =>
       ReadinessOutcome =
         (IF ~hist.poll.resOk \/ ~hist.poll.ciFound THEN "fail"
          ELSE SnapshotDecision(hist.poll.planned, hist.poll.current,
                                forcedResync))
  /\ WaitEndsByPollOrShutdown

\* C13 witness: the plan matches, Current is empty, the collection is not
\* known: the attempt has failed.
C13_Witness ==
  /\ Terminal
  /\ result = FAILED_ERR
  /\ hist.poll = [resOk |-> TRUE, planned |-> <<Leader, Ourselves>>,
                  ciFound |-> FALSE, current |-> <<>>, polled |-> TRUE]

\* C14: an attempt that the readiness wait ended as already done or by a
\* planning mismatch (not planned any more, another planned leader, the
\* planned leader not leading in Current) leaves FailureState no larger than it
\* was.
C14_ReadinessFailureNotCounted ==
  (Counted /\ hist.last = "readiness"
     /\ hist.cause \in {"alreadyDone", "cancelled", "notLeading"}) =>
    replErrors <= hist.before

\* C15: an attempt aborted by shutdown, in the backoff, in the readiness wait,
\* before the bulk sync or at the start of a soft-lock round, leaves
\* FailureState no larger than it was.
C15_ShutdownNotCounted ==
  (Counted /\ result = SHUTTING_DOWN) => replErrors <= hist.before

\* C16: for n >= 4 failures in a row the delay is min(150, 20 + n*(n+1)/2)
\* tenths of a second, for n < 4 there is none; while the job sleeps, what it
\* has slept and what is left add up to that delay, so that it has slept
\* exactly the delay when the sleep loop ends.
C16_BackoffDelay ==
  LET n == hist.before
      delay == IF n >= 4
                 THEN (IF 20 + (n * (n + 1)) \div 2 < 150
                         THEN 20 + (n * (n + 1)) \div 2 ELSE 150)
                 ELSE 0
  IN /\ pc = "start" => hist.slept = 0
     /\ pc = "backoff" =>
          hist.slept + (IF sleepTime > 0 THEN sleepTime ELSE 0) = delay
     /\ hist.slept <= delay

\* C16 witness: six failures, 4.1 s slept in nine rounds.
C16_Witness ==
  /\ pc = "backoff"
  /\ sleepTime <= 0
  /\ hist.before = 6
  /\ hist.slept = 41

\* The delay has just been computed.
DelayComputed == pc = "backoff" /\ hist.slept = 0

\* C17 (as stated): at n = 10 the computed delay is the cap of 15.0 s.
C17_CapReachedAtTen ==
  (DelayComputed /\ hist.before = 10) => sleepTime = 150

\* C17 (amended): at n = 10 the computed delay is 7.5 s; the delay is the cap
\* of 15.0 s exactly for n >= 16.
C17_CapReachedAtSixteen ==
  DelayComputed =>
    /\ hist.before = 10 => sleepTime = 75
    /\ sleepTime = 150 <=> hist.before >= 16

\* C17 witness: the delay at n = 16 is the cap.
C17_Witness ==
  /\ DelayComputed
  /\ hist.before = 16
  /\ sleepTime = 150

\* In the soft-lock loop or between two of its rounds.
InSoftLoop == pc \in {"softLoop", "catchup", "softCancel"}

\* A step is started from the head of the soft-lock loop.
LeavesLoopHead == pc = "softLoop" /\ hist'.last # hist.last

\* From the head of the loop the next round is started if no round has run yet,
\* or if the last one timed out and fewer than 18 have run; otherwise the hard
\* lock is requested.
RoundRule ==
  LeavesLoopHead =>
    IF tries = 0 \/ (didTimeout /\ tries < 18)
      THEN hist'.last = "softAcquire"
      ELSE hist'.last = "hardAcquire"

\* The catch-up of a round starts from the tick the loop head holds, and a
\* round that succeeded leaves the tick it reached there.
TickRule ==
  /\ (pc = "softLoop" /\ pc' = "catchup") => lastLogTick' = lastLogTick
  /\ (pc = "catchup" /\ pc' = "softCancel") => lastLogTick' = lastLogTick
  /\ (pc = "softCancel" /\ pc' = "softLoop") => lastLogTick' = tickReached

\* C18: the soft-lock loop runs at least one and at most 18 rounds; without
\* errors and shutdown it ends after the first round whose catch-up did not time
\* out, or after 18 rounds; after each successful round the start tick of the
\* next is the tick this one reached.
C18_SoftLoopRounds ==
  /\ [](InSoftLoop => tries <= 18)
  /\ [](pc \in {"catchup", "softCancel"} => tries >= 1)
  /\ []((pc = "softLoop" /\ tries >= 1) => lastLogTick = tickReached)
  /\ [][RoundRule /\ TickRule]_vars

\* C18 witness: the third round is the first that did not time out.
C18_Witness ==
  /\ pc = "softLoop"
  /\ tries = 3
  /\ ~didTimeout
  /\ lastLogTick = MaxTick
  /\ hist.last = "softCancel"
  /\ hist.lastOk

\* All 18 rounds have run and timed out, none with an error.
LoopExhausted == pc = "softLoop" /\ tries = 18 /\ didTimeout

\* C19: after 18 rounds that all timed out the attempt has not failed; the
\* next step is the request for the hard lock, and when that is granted the
\* hard-lock phase starts from the tick the last round reached; when it is
\* not, the attempt fails with the error of that request.
C19_ExhaustionIsNotFatal ==
  /\ [](LoopExhausted =>
          /\ result = NO_ERROR
          /\ hist.last = "softCancel" /\ hist.lastOk
          /\ lastLogTick = tickReached)
  /\ [][(LoopExhausted /\ hist'.last # hist.last) =>
          /\ hist'.last = "hardAcquire"
          /\ IF hist'.lastOk
               THEN pc' = "finalize" /\ lastLogTick' = tickReached
               ELSE /\ pc' = "returned"
                    /\ hist'.acquire.outcome # "ok"
                    /\ result' \in RpcErrors \cup {INTERNAL}]_vars

\* C19 witness: the eighteenth round has timed out like those before it.
C19_Witness ==
  /\ LoopExhausted
  /\ result = NO_ERROR
  /\ tickReached = MaxTick
  /\ lastLogTick = MaxTick

\* C20: when the bulk sync failed and the deadline was the cause, the result
\* of the attempt is the attempt-timeout error, not an error of the syncer,
\* and the terminal transition leaves FailureState as it was.
C20_BulkSyncTimeoutRetagged ==
  (Terminal /\ hist.last = "bulk" /\ hist.cause = "deadline") =>
    /\ result = ATTEMPT_TIMEOUT
    /\ result \notin RpcErrors
    /\ replErrors = hist.before

\* C20 witness: a job that started without failures and ran into the deadline
\* in the bulk sync.
C20_Witness ==
  /\ pc = "done"
  /\ hist.last = "bulk"
  /\ hist.cause = "deadline"
  /\ hist.before = 0
  /\ replErrors = 0
  /\ timedOutAttempts = 1

\* A tailing call of the attempt is about to start or running: lastLogTick is
\* the tick it starts from.
HoldsStartTick == pc \in {"softLoop", "catchup", "softCancel", "finalize"}

\* C21: within one attempt the tick the next tailing call starts from (the
\* lastLogTick of the bulk sync, the value after each soft-lock round, the start
\* tick of finalize) never decreases, whatever ticks the tailing syncer
\* reports.
C21_StartTickNeverDecreases ==
  [][(HoldsStartTick /\ HoldsStartTick') => lastLogTick' >= lastLogTick]_vars

\* A request for a lock on the leader is issued.
AcquireStep ==
  hist'.last # hist.last /\ hist'.last \in {"softAcquire", "hardAcquire"}

\* C22: an attempt issues at most one hard-lock acquire, and none after it;
\* whenever it issues an acquire, soft or hard, the lock of the acquire before
\* was a soft lock that was granted and has had exactly one cancel call, for
\* its id, that returned success: so every soft lock is released before the
\* hard lock is requested and no two locks are outstanding at once.
C22_OneLockOutstanding ==
  [][AcquireStep =>
       /\ "hardAcquire" \notin hist.started
       /\ hist.acquire.mode # "hard"
       /\ hist.acquire.mode = "soft" =>
            /\ hist.acquire.outcome = "ok"
            /\ hist.cancels = 1
            /\ hist.cancelRight
            /\ hist.cancelOk
            /\ readLockGuard = "none"]_vars

\* C22 witness: the hard lock is held after a soft-lock round that ended with a
\* successful cancel; no cancel call for the hard lock yet.
C22_Witness ==
  /\ pc = "finalize"
  /\ hist.acquire = [mode |-> "hard", outcome |-> "ok", id |-> MaxLockId]
  /\ hist.cancels = 0
  /\ {"softAcquire", "catchup", "softCancel"} \subseteq hist.succeeded

\* C27: if a soft-lock acquire fails, or the explicit cancel of a soft lock
\* returns an error, the attempt has failed at once: no further soft-lock round,
\* no request for the hard lock, no add-follower; after a failed explicit
\* cancel that lock has had this one cancel call and gets no other.
C27_SoftLockFailureIsFatal ==
  /\ (hist.acquire.mode = "soft" /\ hist.acquire.outcome # "ok") =>
       /\ Terminal
       /\ result # NO_ERROR
       /\ hist.last = "softAcquire"
       /\ "hardAcquire" \notin hist.started
       /\ "addFollower" \notin hist.started
  /\ (hist.last = "softCancel" /\ ~hist.cancelOk) =>
       /\ Terminal
       /\ result = INTERNAL
       /\ ~hist.lastOk
       /\ hist.acquire.mode = "soft"
       /\ hist.cancels = 1
       /\ "hardAcquire" \notin hist.started
       /\ "addFollower" \notin hist.started

\* C27 witness: the explicit cancel of the second round failed and the attempt
\* went through its terminal transition.
C27_Witness ==
  /\ pc = "done"
  /\ state = "FAILED"
  /\ hist.last = "softCancel"
  /\ ~hist.cancelOk
  /\ hist.cancels = 1
  /\ "softCancel" \in hist.succeeded

\* The attempt is about to start the bulk sync, a soft-lock round or the
\* hard-lock acquire, or add-follower.
BeforePhase == pc \in {"sync", "softLoop", "addFollower"}

\* C23: if the stopping flag is set before the bulk sync, before a soft-lock
\* round, before the hard-lock acquire or before add-follower, the next step of
\* the attempt is to return the shutting-down result, and that phase is not
\* started.
C23_StoppingPolledBeforeEachPhase ==
  [][(stopping /\ BeforePhase /\ pc' # pc) =>
       /\ pc' = "returned"
       /\ result' = SHUTTING_DOWN
       /\ hist'.last = hist.last]_vars

\* The job has called the leader or a syncer.
CalledLeader ==
  \/ hist.counts # <<>>
  \/ "bulk" \in hist.started
  \/ hist.acquire # NoAcquire

\* A round of the backoff or of the readiness loop that finds the stopping
\* flag set returns the shutting-down result without sleeping.
StoppingEndsSleepLoops ==
  (pc = "backoff" /\ stopping) =>
    /\ pc' = "returned"
    /\ result' = SHUTTING_DOWN
    /\ hist'.nap = 0
    /\ hist'.slept = hist.slept

\* A round of the job sleeps only when it found the flag not set: in the
\* backoff what is left of the delay but at most 0.5 s, in the readiness loop
\* 0.2 s.
SleepRule ==
  (stopping' = stopping /\ hist'.nap > 0) =>
    /\ pc = "backoff" /\ ~stopping
    /\ IF sleepTime > 0
         THEN /\ hist'.nap = (IF sleepTime < 5 THEN sleepTime ELSE 5)
              /\ hist'.slept = hist.slept + hist'.nap
         ELSE /\ hist'.nap = 2
              /\ pc' = "backoff"

\* C24: the stopping flag is checked before every sleep: each round of the
\* backoff sleeps at most 0.5 s and each poll of the readiness loop that has to
\* wait sleeps 0.2 s; when a check finds the flag set the attempt returns the
\* shutting-down result at once, without sleeping further and without any call
\* to the leader.
C24_StoppingCheckedBeforeSleep ==
  /\ [](hist.nap <= 5)
  /\ []((pc \in {"start", "backoff"}
          \/ (Terminal /\ "readiness" \notin hist.succeeded))
          => ~CalledLeader)
  /\ [][StoppingEndsSleepLoops /\ SleepRule]_vars

\* C24 witness: six failures in a row; the backoff slept 4.1 s, the last round
\* 0.1 s; the readiness loop polled, slept 0.2 s and then found the flag set.
C24_Witness ==
  /\ pc = "returned"
  /\ result = SHUTTING_DOWN
  /\ hist.before = 6
  /\ hist.slept = 41
  /\ hist.poll.polled
  /\ hist.last = "readiness"
  /\ hist.nap = 0

\* How far a terminal transition has got: 0 before setState, 1 once the
\* counters are updated, 2 once the version is bumped, 3 once the shard-level
\* lock is dealt with, 4 once the action has its terminal state.
TransitionStage ==
  IF pc = "returned" THEN 0
  ELSE IF pc \in {"versionWait", "bump"} THEN 1
  ELSE IF pc = "unlock" THEN 2
  ELSE IF pc = "finish" THEN 3
  ELSE 4

\* The terminal transition of a job that was not requeued.
Transition == Terminal /\ result # ACTION_UNFINISHED

\* The version is bumped by one, by the step that ends the wait; the lock is
\* released by the step after it; the state changes in the last step.
EffectsRule ==
  /\ shardVersion' # shardVersion =>
       /\ TransitionStage = 1
       /\ pc' = "unlock"
       /\ shardVersion' = shardVersion + 1
  /\ shardLocked' # shardLocked =>
       /\ pc = "unlock"
       /\ pc' = "finish"
       /\ ~shardLocked'
  /\ state' # state =>
       /\ pc = "finish"
       /\ pc' = "done"

\* C26: on every terminal transition that is not a requeue the shard's
\* version counter is bumped exactly once, then the shard-level lock is
\* released exactly once, then the action's state becomes COMPLETE or FAILED;
\* on COMPLETE the FailureState is cleared before the bump and the release.
C26_BumpThenUnlockThenState ==
  /\ [](Transition =>
          /\ shardVersion = (IF TransitionStage >= 2 THEN 1 ELSE 0)
          /\ shardLocked = (TransitionStage < 3)
          /\ state = (IF TransitionStage < 4 THEN "EXECUTING"
                      ELSE IF result = NO_ERROR THEN "COMPLETE" ELSE "FAILED")
          /\ (result = NO_ERROR /\ TransitionStage >= 1) => replErrors = 0)
  /\ [](~Terminal => (shardVersion = 0 /\ shardLocked /\ state = "EXECUTING"))
  /\ [][EffectsRule]_vars

\* C26 witness: a job that started with failures has completed; the counter
\* is cleared and the version bumped, the lock not yet released.
C26_Witness ==
  /\ pc = "unlock"
  /\ result = NO_ERROR
  /\ hist.before = MaxFailures
  /\ replErrors = 0
  /\ shardVersion = 1
  /\ shardLocked
  /\ state = "EXECUTING"

\* The entries of the two shards in MaintenanceFeature.
OwnEntries == <<replErrors, shardLocked, shardVersion>>
PeerEntries == <<peer.replErrors, peer.shardLocked, peer.shardVersion>>

\* A step of the terminal transition of either attempt.
OwnTransitionStep == Terminal /\ pc # "done" /\ pc' # pc
PeerTransitionStep == peer.pc = "returned" /\ peer'.pc = "done"

\* C25: with the attempts for two shards interleaved in any order, the
\* FailureState entry, the scheduling lock and the version counter of a shard
\* are changed only by the terminal transition of the attempt for that shard,
\* and that transition leaves the entries of the other shard as they are.
C25_OnlyOwnShardEntries ==
  [][/\ OwnTransitionStep => PeerEntries' = PeerEntries
     /\ PeerTransitionStep => OwnEntries' = OwnEntries
     /\ OwnEntries' # OwnEntries => OwnTransitionStep
     /\ PeerEntries' # PeerEntries => PeerTransitionStep]_vars

\* C25 witness: the other attempt completed while this one was in its
\* terminal transition after a failure that counts; each shard has its own
\* FailureState, both locks are released, both versions bumped once.
C25_Witness ==
  /\ pc = "done"
  /\ peer.pc = "done"
  /\ result = WRONG_CHECKSUM
  /\ peer.result = NO_ERROR
  /\ hist.before = MaxFailures
  /\ replErrors = MaxFailures + 1
  /\ peer.replErrors = 0
  /\ OwnEntries = <<MaxFailures + 1, FALSE, 1>>
  /\ PeerEntries = <<0, FALSE, 1>>

\* C28: the leader pointer of the local shard is not set by the attempt
\* before the bulk sync; from the start of the bulk sync until the hard lock is
\* acquired it is the plain leader id, and stays so when the hard-lock acquire
\* fails; once the hard lock is acquired, and before finalize starts, it is
\* leader_<term> (the plain leader id when the term id is 0), and the tailing
\* syncer's leader id, the plain leader id until then, is the same value.
C28_LeaderPointerPhases ==
  /\ "bulk" \notin hist.started => theLeader = <<>>
  /\ ("bulk" \in hist.started /\ "hardAcquire" \notin hist.succeeded) =>
       /\ theLeader = <<Leader>>
       /\ syncerLeaderId = <<Leader>>
       /\ pc \notin {"finalize", "addFollower", "recount", "leaderRecount"}
  /\ "hardAcquire" \in hist.succeeded =>
       /\ theLeader = (IF followingTermId = 0 THEN <<Leader>>
                       ELSE <<Leader, "_", followingTermId>>)
       /\ syncerLeaderId = theLeader
       /\ followingTermId = (IF hist.hardTerm.has THEN hist.hardTerm.val ELSE 0)

\* C28 witness: the hard lock has just been acquired with term MaxTerm;
\* finalize has not started.
C28_Witness ==
  /\ pc = "finalize"
  /\ hist.last = "hardAcquire"
  /\ hist.lastOk
  /\ theLeader = <<Leader, "_", MaxTerm>>
  /\ syncerLeaderId = <<Leader, "_", MaxTerm>>

\* The hard lock is granted and the hard-lock phase goes on to finalize.
HardLockGranted == pc = "softLoop" /\ pc' = "finalize"

\* C29: finalize is started from the tick the soft-lock phase returned, with
\* the lastLogTick of the hard lock's response as upper bound when the response
\* had one and 0 (no bound) otherwise; when finalize returns an error or
\* throws, add-follower is not called and the attempt fails with the error code
\* of finalize.
C29_FinalizeTicksAndFailure ==
  /\ [](pc = "finalize" =>
          /\ hist.last = "hardAcquire" /\ hist.lastOk
          /\ tailingUpperBoundTick =
               (IF hist.hardUpper.has THEN hist.hardUpper.val ELSE 0))
  /\ []((Terminal /\ hist.last = "finalize") =>
          /\ ~hist.lastOk
          /\ hist.finalRes # NO_ERROR
          /\ result = hist.finalRes
          /\ "addFollower" \notin hist.started
          /\ ~hist.addReq.sent)
  /\ []("addFollower" \in hist.started => hist.finalRes = NO_ERROR)
  /\ [][/\ HardLockGranted => lastLogTick' = tickReached
        /\ (pc = "finalize" /\ pc' = "addFollower") =>
             /\ lastLogTick' = lastLogTick
             /\ tailingUpperBoundTick' = tailingUpperBoundTick]_vars

\* C29 witness: the hard lock's response had lastLogTick MaxTick; finalize ran
\* with that upper bound and threw.
C29_Witness ==
  /\ Terminal
  /\ hist.last = "finalize"
  /\ hist.hardUpper = Field(MaxTick)
  /\ tailingUpperBoundTick = MaxTick
  /\ hist.finalRes = INTERNAL
  /\ result = INTERNAL

\* The reconciliation after a checksum mismatch is entered.
EntersReconciliation == pc = "addFollower" /\ pc' = "recount"

\* C30: after a checksum-mismatch answer to add-follower the cancel call for
\* the hard lock is issued, with the lock's id, before the local count is read,
\* before the local recount and before any recount request to the leader: the
\* call is made by the step that enters the reconciliation, and none of these
\* has happened then.
C30_CancelBeforeRecount ==
  /\ [](pc \in {"recount", "leaderRecount"} =>
          /\ hist.addRes = WRONG_CHECKSUM
          /\ hist.acquire.mode = "hard"
          /\ hist.cancels = 1
          /\ hist.cancelRight
          /\ readLockGuard = "fired")
  /\ []((hist.last = "recount" \/ hist.recountRes # "none") =>
          (hist.acquire.mode = "hard" /\ hist.cancels = 1))
  /\ [][EntersReconciliation =>
          /\ hist.cancels = 0
          /\ hist'.cancels = 1
          /\ hist'.last = "addFollower"
          /\ hist'.recountRes = "none"]_vars

\* C30 witness: the lock's cancel call, which failed, has been issued; the
\* local count has not been read yet.
C30_Witness ==
  /\ pc = "recount"
  /\ hist.last = "addFollower"
  /\ hist.addRes = WRONG_CHECKSUM
  /\ hist.cancels = 1
  /\ ~hist.cancelOk
  /\ hist.recountRes = "none"

\* The recount request to the leader is about to be sent or has been sent.
LeaderAsked == pc = "leaderRecount" \/ LeaderRecounted

\* The reconciliation has the two local counts and decides.
DecidesRecount == pc = "compare" /\ pc' # pc

\* C31: the recount request to the leader is sent if and only if add-follower
\* returned checksum mismatch and the forced local recount returned the count
\* that was read before it; when the recount changed the count the attempt
\* returns the checksum mismatch without a request to the leader, and so it
\* does when a local count failed; when add-follower returned anything else
\* there is no reconciliation.
C31_LeaderRecountIffUnchanged ==
  /\ []((pc = "compare" \/ LeaderAsked) =>
          (hist.addRes = WRONG_CHECKSUM /\ hist.last = "recount"))
  /\ [](pc = "compare" => hist.recount \in Counts \X Counts)
  /\ [](hist.recountRes \in {"changed", "localFail"} =>
          (Terminal /\ ~LeaderAsked))
  /\ [][/\ DecidesRecount =>
             IF hist.recount[1] = hist.recount[2]
               THEN pc' = "leaderRecount"
               ELSE /\ pc' = "returned"
                    /\ result' = WRONG_CHECKSUM
                    /\ hist'.recountRes = "changed"
        /\ (pc' = "leaderRecount" /\ pc # "leaderRecount") => pc = "compare"]_vars

\* C31 witness: the two local counts are 0 and MaxCount and are about to be
\* compared.
C31_Witness ==
  /\ pc = "compare"
  /\ hist.addRes = WRONG_CHECKSUM
  /\ hist.recount = <<0, MaxCount>>

\* ------------------------------------------------------------------ C32
\* The planned list has the form [leader, ..., this server, ...]: it is
\* there, has two entries or more, starts with the job's leader and names
\* this server at a place after the first.
PlannedForm(plan) ==
  /\ plan.kind = "array"
  /\ Len(plan.items) >= 2
  /\ plan.items[1] = Str(Leader)
  /\ \E i \in 2..Len(plan.items) : plan.items[i] = Str(Ourselves)

ProbeAnswered == probe.answer \in {"abort", "goOn"}

\* C32: the cancellation callback of the bulk sync answers abort exactly
\* when the deadline is set and has elapsed, or the planned server list is
\* missing, shorter than two entries, does not start with the job's leader,
\* or does not name this server after the first entry.
C32_AbortIffDeadlineOrNotPlanned ==
  ProbeAnswered =>
    (probe.answer = "abort" <=>
       \/ probe.hasDeadline /\ probe.passed
       \/ ~PlannedForm(probe.plan))

\* The callback has aborted without a deadline on a list that names this
\* server as a follower, but of another leader.
C32_Witness ==
  /\ probe.answer = "abort"
  /\ ~probe.hasDeadline
  /\ probe.plan = PlanArray(<<Str(Other), Str(Ourselves)>>)

\* ------------------------------------------------------------------ C33
InVersionWait == pc = "versionWait"

\* C33: the wait for the agency's version ends with a version, with the
\* stopping flag, or when the polls that fit in 600 s are used up; each
\* round that stays in the wait uses up one poll, the wait is left while
\* stopping only towards the bump, the bump follows in every case, and under
\* fairness of setState a wait that has begun reaches the end of setState.
C33_VersionWaitEnds ==
  /\ [](InVersionWait => versionPolls <= MaxVersionPolls)
  /\ [][(InVersionWait /\ pc' = pc /\ stopping' = stopping) =>
          (~stopping /\ versionPolls' = versionPolls + 1)]_vars
  /\ [][(InVersionWait /\ pc' # pc) =>
          \/ pc' = "bump" /\ ~stopping /\ versionPolls < MaxVersionPolls
          \/ /\ pc' = "unlock"
             /\ stopping \/ versionPolls = MaxVersionPolls
             /\ shardVersion' = shardVersion + 1]_vars
  /\ [][(pc = "bump" /\ pc' # pc) =>
          (pc' = "unlock" /\ shardVersion' = shardVersion + 1)]_vars
  /\ (InVersionWait ~> pc = "done")

\* No version could be fetched in 600 s, the server is not stopping, and the
\* shard's version has been bumped all the same.
C33_Witness ==
  /\ pc = "unlock"
  /\ versionPolls = MaxVersionPolls
  /\ ~stopping
  /\ shardVersion = 1

\* ------------------------------------------------------------------ C34
\* first() has returned because replicationSynchronize failed.
BulkSyncFailed ==
  Terminal /\ hist.last = "bulk" /\ hist.cause \in SyncFailures

\* C34: when the bulk sync failed and the deadline is set and has elapsed as
\* the failure is handled, the result is the attempt timeout whatever made
\* the bulk sync fail, FailureState stays as it was and the attempt is
\* counted as timed out; when the deadline has not elapsed the syncer's
\* error stays and counts as a failure.
C34_ElapsedDeadlineRetagsAnyFailure ==
  /\ (BulkSyncFailed /\ endTimeSet /\ deadlinePassed) =>
       /\ result = ATTEMPT_TIMEOUT
       /\ replErrors = hist.before
       /\ Counted => timedOutAttempts = 1
  /\ (BulkSyncFailed /\ ~(endTimeSet /\ deadlinePassed)) =>
       /\ hist.cause # "deadline"
       /\ result \in RpcErrors
       /\ Counted => (replErrors = hist.before + 1 /\ timedOutAttempts = 0)

\* The plan changed under the bulk sync, the deadline had passed when the
\* failure was handled, and the attempt has ended as timed out.
C34_Witness ==
  /\ pc = "done"
  /\ hist.last = "bulk"
  /\ hist.cause = "plan"
  /\ endTimeSet /\ deadlinePassed
  /\ result = ATTEMPT_TIMEOUT
  /\ hist.before = MaxFailures
  /\ replErrors = MaxFailures
  /\ timedOutAttempts = 1

\* ------------------------------------------------------------------ C35
\* The job syncs by revision and a positive attempt timeout is configured.
DeadlineConfigured == syncByRevision /\ attemptTimeout > 0

\* C35: the deadline is set only for a job that syncs by revision with a
\* positive attempt timeout, and from the bulk sync on it is set for every
\* such job; in every other attempt there is no deadline, it never elapses,
\* no syncer is aborted by it and neither the result nor the counter of
\* timed-out attempts shows an attempt timeout.
C35_DeadlineOnlyByRevisionWithTimeout ==
  /\ endTimeSet => DeadlineConfigured
  /\ "bulk" \in hist.started => (endTimeSet <=> DeadlineConfigured)
  /\ ~DeadlineConfigured =>
       /\ ~endTimeSet
       /\ ~deadlinePassed
       /\ hist.cause # "deadline"
       /\ result # ATTEMPT_TIMEOUT
       /\ timedOutAttempts = 0

\* A job that does not sync by revision, with an attempt timeout configured:
\* its bulk sync failed and the attempt has ended with the syncer's error.
C35_Witness ==
  /\ pc = "done"
  /\ ~syncByRevision
  /\ attemptTimeout > 0
  /\ hist.last = "bulk"
  /\ hist.cause = "other"
  /\ ~endTimeSet
  /\ result \in RpcErrors
  /\ replErrors = hist.before + 1

\* ------------------------------------------------------------------ C36
\* The attempt has ended because an acquire call, soft or hard, failed.
AcquireFailed ==
  /\ Terminal
  /\ hist.last \in {"softAcquire", "hardAcquire"}
  /\ ~hist.lastOk
  /\ hist.acquire.outcome # "none"

\* C36: a failed acquire ends the attempt with a failure; when the POST
\* failed other than by could-not-connect exactly one cancel was sent, with
\* the id of the POST, and the result is the POST's error whatever the
\* cancel returned; when the POST could not connect no cancel was sent; when
\* no lock id was obtained there was no id to POST and no cancel was sent.
C36_CancelAfterAmbiguousPost ==
  AcquireFailed =>
    /\ hist.acquire.outcome \in {"postFail", "connectFail", "idFail"}
    /\ result # NO_ERROR
    /\ hist.acquire.outcome = "postFail" =>
         /\ hist.cancels = 1
         /\ hist.cancelRight
         /\ hist.acquire.id \in LockIds
         /\ result \in RpcErrors
    /\ hist.acquire.outcome = "connectFail" =>
         /\ hist.cancels = 0
         /\ result = INTERNAL
    /\ hist.acquire.outcome = "idFail" =>
         /\ hist.cancels = 0
         /\ hist.acquire.id = 0
         /\ result \in RpcErrors

\* The POST of the hard lock failed, the cancel that followed failed too, and
\* the attempt has ended with the error of the POST.
C36_Witness ==
  /\ pc = "returned"
  /\ hist.last = "hardAcquire"
  /\ hist.acquire.outcome = "postFail"
  /\ hist.cancels = 1
  /\ ~hist.cancelOk
  /\ result = CONNECTION_LOST

\* ------------------------------------------------------------------ C37
\* A call of setState whose requested state is terminal and is not the
\* state the action is in has begun and has not yet stored the new state.
InTransition ==
  /\ pc \in {"returned", "versionWait", "bump", "unlock"}
  /\ FinalState(result) \in {"COMPLETE", "FAILED"}
  /\ state # FinalState(result)

\* C37: FailureState, the counter of timed-out attempts, the shard's version
\* and the shard's lock change only inside a call of setState that asks for
\* COMPLETE or FAILED while the action is in another state; a further call
\* with the state the action is in changes none of them nor the state, so
\* FailureState grows by one at most and the version is bumped once at most.
C37_SideEffectsOncePerTransition ==
  /\ [][featureVars' # featureVars => InTransition]_vars
  /\ [][hist'.again # hist.again =>
          /\ pc = "done" /\ state = FinalState(result)
          /\ UNCHANGED <<featureVars, state, result, pc, requeueVars,
                         versionPolls>>]_vars
  /\ [](replErrors <= hist.before + 1)
  /\ [](timedOutAttempts <= 1 /\ shardVersion <= 1)

\* setState(FAILED) has been called again on a job that is FAILED: the
\* failure is counted once, the version bumped once, the shard unlocked.
C37_Witness ==
  /\ pc = "done"
  /\ hist.again = MaxRepeatedCalls
  /\ state = "FAILED"
  /\ result \in RpcErrors
  /\ replErrors = hist.before + 1
  /\ shardVersion = 1
  /\ ~shardLocked

\* ------------------------------------------------------------------ C38
\* The soft-lock phase is over and the hard lock is asked for next.
AtHardLockEntry == pc = "softLoop" /\ ~LoopGoesOn(didTimeout, tries)

\* C38: up to the hard lock's response the following term id and the upper
\* bound of the tailing are 0, as the constructor left them, whatever the
\* soft locks' responses carried; so they are at the entry to the hard-lock
\* phase, and the only step that changes either is a granted hard lock.
C38_TermAndBoundZeroBeforeHardLock ==
  /\ []("hardAcquire" \notin hist.succeeded =>
          (followingTermId = 0 /\ tailingUpperBoundTick = 0))
  /\ [](AtHardLockEntry =>
          (followingTermId = 0 /\ tailingUpperBoundTick = 0))
  /\ [][(followingTermId' # followingTermId
           \/ tailingUpperBoundTick' # tailingUpperBoundTick) =>
          /\ AtHardLockEntry
          /\ pc' = "finalize"
          /\ hist'.acquire.mode = "hard"
          /\ hist'.acquire.outcome = "ok"
          /\ followingTermId' # followingTermId => hist'.hardTerm.has
          /\ tailingUpperBoundTick' # tailingUpperBoundTick =>
               hist'.hardUpper.has]_vars

\* The soft-lock loop has run all its rounds, a soft lock's response carried
\* a term id and a lastLogTick other than 0, and both fields of the job are 0
\* as the hard lock is about to be asked for.
C38_Witness ==
  /\ AtHardLockEntry
  /\ tries = maxTries
  /\ hist.softFields
  /\ followingTermId = 0
  /\ tailingUpperBoundTick = 0

\* ------------------------------------------------------------------ C39
TaskIds == DOMAIN tasks.t

\* C39: every task is prepared once by its dispatch and never again; it is
\* unprepared at most once, and exactly once when it is over: by dispatch
\* itself when post returned false or threw, and then run was never
\* executed, otherwise by run, whether run completed or threw; dispatch
\* returns true exactly when the task was posted; the manager's count is the
\* number of tasks prepared and not yet unprepared.
C39_PrepareMatchedByOneUnprepare ==
  /\ [](\A i \in TaskIds :
          LET t == tasks.t[i] IN
          /\ t.prepares = (IF t.pc = "new" THEN 0 ELSE 1)
          /\ t.unprepares = (IF t.pc = "over" THEN 1 ELSE 0)
          /\ t.returned = "true" <=> t.post = "posted"
          /\ t.returned \in {"false", "throws"} =>
               (t.pc = "over" /\ t.run = "none")
          /\ t.run # "none" => t.returned = "true")
  /\ [](tasks.outstanding =
          Cardinality({i \in TaskIds : tasks.t[i].pc \in {"prepared", "posted"}}))
  /\ [][\A i \in TaskIds :
          tasks'.t[i].unprepares # tasks.t[i].unprepares =>
            \/ /\ tasks.t[i].pc = "prepared"
               /\ tasks'.t[i].returned \in {"false", "throws"}
               /\ tasks'.t[i].run = "none"
            \/ /\ tasks.t[i].pc = "posted"
               /\ tasks'.t[i].returned = "true"
               /\ tasks'.t[i].run \in {"completed", "threw"}]_vars

\* One task was posted and its run threw, another was rejected by post: each
\* has been unprepared once and the manager counts no task.
C39_Witness ==
  /\ tasks.t # <<>>
  /\ tasks.t[1].run = "threw" /\ tasks.t[1].unprepares = 1
  /\ tasks.t[2].returned = "false" /\ tasks.t[2].unprepares = 1
  /\ tasks.outstanding = 0

\* ------------------------------------------------------------------ C40
\* The order of the phases.
PhaseCycle ==
  {<<TRANSPOSE, TRIMMING>>, <<TRIMMING, FORWARD_TRAVERSAL>>,
   <<FORWARD_TRAVERSAL, BACKWARD_TRAVERSAL_START>>,
   <<BACKWARD_TRAVERSAL_START, BACKWARD_TRAVERSAL_REST>>,
   <<BACKWARD_TRAVERSAL_REST, TRANSPOSE>>}

\* preGlobalSuperstep is called for a superstep other than the first.
MasterStep == scc.stage = "pre" /\ scc'.stage = "compute" /\ scc.gss > 0

\* C40: the phase changes only in preGlobalSuperstep and only to the next
\* phase of the cycle; the first superstep runs in TRANSPOSE; the forward
\* traversal is left only when no vertex reported a new maximum in the
\* superstep before, and the rest of the backward traversal is left, for
\* TRANSPOSE, when no vertex reported convergence and kept when one did.
C40_PhaseFollowsCycle ==
  /\ [][scc'.phase # scc.phase =>
          (scc.stage = "pre" /\ <<scc.phase, scc'.phase>> \in PhaseCycle)]_vars
  /\ []((scc.stage = "compute" /\ scc.gss = 0) => scc.phase = TRANSPOSE)
  /\ [][(scc.phase = FORWARD_TRAVERSAL /\ scc'.phase # scc.phase) =>
          ~scc.max]_vars
  /\ [][(MasterStep /\ scc.phase = BACKWARD_TRAVERSAL_REST) =>
          scc'.phase = (IF scc.converged THEN BACKWARD_TRAVERSAL_REST
                        ELSE TRANSPOSE)]_vars

\* A vertex reported convergence in the rest of the backward traversal and
\* the master context has kept the phase for the next superstep.
C40_Witness ==
  /\ scc.stage = "compute"
  /\ scc.gss > 4
  /\ scc.phase = BACKWARD_TRAVERSAL_REST
  /\ scc.converged

====
